---- MODULE Spec2Model ----
(***************************************************************************)
(* A model of the swords container (Radenz/swords): the in-memory object   *)
(* graph (Value, Entries, Record, Collection, Header, Swd), the master-key *)
(* unlock, the record reveal, the serializer (to_bytes) and the parser.    *)
(*                                                                         *)
(* Rust Strings and byte buffers are sequences of bytes (0..255); a String *)
(* is the UTF-8 encoding of its text.  Option<T> is None / Some(x).        *)
(* A HashMap (Entries) is a function from its keys to its values; its      *)
(* iteration order is not fixed by the code and is an input of to_bytes.   *)
(* A panic (unwrap on None / Err) is an outcome of its own.                *)
(***************************************************************************)
EXTENDS Integers, Sequences, FiniteSets, TLC

----------------------------------------------------------------------------
(* Bounds of the model *)

\* length of a digest and of a cipher key (32 in the build: sha3-256, AES-256)
KeySize == 2
\* length of the aes-gcm nonce (12 in the build)
NonceSize == 1
\* child collections in the tree
MaxChildren == 1
\* records in the tree
MaxRecords == 1
\* nesting depth of collections below the root
MaxDepth == 1
\* extras entries in the container (header, collections and records together)
MaxExtras == 1

----------------------------------------------------------------------------
(* Bytes, options, text *)

Byte == 0..255

None == [some |-> FALSE]
Some(x) == [some |-> TRUE, val |-> x]

RECURSIVE SumBytes(_)
SumBytes(s) == IF s = <<>> THEN 0 ELSE Head(s) + SumBytes(Tail(s))

\* s with the first n elements dropped / the first n elements of s
Drop(s, n) == SubSeq(s, n + 1, Len(s))
Take(s, n) == SubSeq(s, 1, n)

IsCont(b) == b >= 128 /\ b <= 191

\* std::str::from_utf8: TRUE iff s is well-formed UTF-8 (Unicode table 3-7)
RECURSIVE from_utf8_ok(_)
from_utf8_ok(s) ==
    IF s = <<>> THEN TRUE
    ELSE LET b == s[1]
             n == Len(s)
         IN  IF b <= 127 THEN from_utf8_ok(Drop(s, 1))
             ELSE IF b >= 194 /\ b <= 223
                  THEN n >= 2 /\ IsCont(s[2]) /\ from_utf8_ok(Drop(s, 2))
             ELSE IF b >= 224 /\ b <= 239
                  THEN /\ n >= 3
                       /\ IsCont(s[2]) /\ IsCont(s[3])
                       /\ (b = 224 => s[2] >= 160)
                       /\ (b = 237 => s[2] <= 159)
                       /\ from_utf8_ok(Drop(s, 3))
             ELSE IF b >= 240 /\ b <= 244
                  THEN /\ n >= 4
                       /\ IsCont(s[2]) /\ IsCont(s[3]) /\ IsCont(s[4])
                       /\ (b = 240 => s[2] >= 144)
                       /\ (b = 244 => s[2] <= 143)
                       /\ from_utf8_ok(Drop(s, 4))
             ELSE FALSE

\* text used by the program, as UTF-8 bytes
K_v      == <<118>>
K_mkhf   == <<109, 107, 104, 102>>
K_khf    == <<107, 104, 102>>
K_mks    == <<109, 107, 115>>
K_ks     == <<107, 115>>
K_mkh    == <<109, 107, 104>>
K_kc     == <<107, 99>>
K_label  == <<108, 97, 98, 101, 108>>
K_secret == <<115, 101, 99, 114, 101, 116>>
K_nonce  == <<110, 111, 110, 99, 101>>
N_sha3   == <<115, 104, 97, 51, 45, 50, 53, 54>>
N_aes    == <<97, 101, 115, 45, 103, 99, 109>>
\* a name no registry holds
N_md5    == <<109, 100, 53>>

----------------------------------------------------------------------------
(* Results: Ok(value), Err(error), or a panic *)

Ok(v) == [tag |-> "Ok", val |-> v]
Err(e) == [tag |-> "Err", err |-> e]
Panic == [tag |-> "Panic"]
IsOk(r) == r.tag = "Ok"
IsErr(r) == r.tag = "Err"
IsPanic(r) == r.tag = "Panic"

----------------------------------------------------------------------------
(* hash.rs *)

\* the digest primitive: an iterated squaring checksum stands for SHA3-256; it
\* has the shape the program relies on (a deterministic function of the whole
\* input with a fixed-length output) and, unlike SHA3, collisions small enough
\* to meet
RECURSIVE Absorb(_, _)
Absorb(x, s) ==
    IF s = <<>> THEN x
    ELSE Absorb(((x + Head(s) + 1) * (x + Head(s) + 1)) % 13, Tail(s))

sha3_256(data) == [i \in 1..KeySize |-> (Absorb(0, data) + 7 * i) % 256]

\* HashFunctionRegistry::default
HashRegistryNames == {N_sha3}

\* HashFunctionRegistry::get_function: unwrap of a missing name panics
get_function(name, data) ==
    IF name \in HashRegistryNames THEN Ok(sha3_256(data)) ELSE Panic

----------------------------------------------------------------------------
(* cipher.rs *)

CipherError_MissingRequiredExtra(name) == [kind |-> "MissingRequiredExtra", field |-> name]
CipherError_EncryptionError == [kind |-> "EncryptionError"]

\* the AEAD primitive: a stream cipher with a one-byte authentication tag
\* stands for AES-256-GCM (Aes256Gcm::encrypt / decrypt of the aes_gcm crate)
KeyStream(key, nonce, i) == (SumBytes(key) + 3 * SumBytes(nonce) + i) % 256
Tag(plain, key, nonce) ==
    (SumBytes(plain) + 5 * SumBytes(key) + 7 * SumBytes(nonce) + Len(plain) + 1) % 256

Seal(plain, key, nonce) ==
    [i \in 1..Len(plain) |-> (plain[i] + KeyStream(key, nonce, i)) % 256]
        \o <<Tag(plain, key, nonce)>>

\* Open without the check of the tag
Open_unauthenticated(data, key, nonce) ==
    IF Len(data) < 1 THEN Err(CipherError_EncryptionError)
    ELSE Ok([i \in 1..(Len(data) - 1) |->
                (data[i] + 256 - KeyStream(key, nonce, i)) % 256])

\* cipher.decrypt: the plaintext when the tag matches
Open(data, key, nonce) ==
    IF Len(data) < 1 THEN Err(CipherError_EncryptionError)
    ELSE LET n == Len(data) - 1
             plain == [i \in 1..n |-> (data[i] + 256 - KeyStream(key, nonce, i)) % 256]
         IN  IF Tag(plain, key, nonce) = data[n + 1]
             THEN Ok(plain) ELSE Err(CipherError_EncryptionError)

\* aes_encrypt: GenericArray::from_slice and Nonce::from_slice panic on a
\* slice of the wrong length; extras is a map from name to bytes
aes_encrypt(data, key, extras) ==
    IF Len(key) # KeySize THEN Panic
    ELSE IF K_nonce \notin DOMAIN extras
         THEN Err(CipherError_MissingRequiredExtra(K_nonce))
    ELSE IF Len(extras[K_nonce]) # NonceSize THEN Panic
    ELSE Ok(Seal(data, key, extras[K_nonce]))

\* aes_decrypt that hands out the bytes although the tag does not match
aes_decrypt_unchecked(data, key, extras) ==
    IF Len(key) # KeySize THEN Panic
    ELSE IF K_nonce \notin DOMAIN extras
         THEN Err(CipherError_MissingRequiredExtra(K_nonce))
    ELSE IF Len(extras[K_nonce]) # NonceSize THEN Panic
    ELSE Open_unauthenticated(data, key, extras[K_nonce])

\* aes_decrypt: the panics of from_slice, the missing nonce, then the cipher
aes_decrypt(data, key, extras) ==
    IF Len(key) # KeySize THEN Panic
    ELSE IF K_nonce \notin DOMAIN extras
         THEN Err(CipherError_MissingRequiredExtra(K_nonce))
    ELSE IF Len(extras[K_nonce]) # NonceSize THEN Panic
    ELSE Open(data, key, extras[K_nonce])

----------------------------------------------------------------------------
(* entity/value.rs *)

\* Value::new
Value_new(value, is_secret) ==
    [value |-> value, revealed_value |-> None, is_secret |-> is_secret]

\* Value::inner: the bytes of a value
inner(v) == v.value

\* HashMap::new, HashMap::insert, HashMap::remove
EmptyEntries == [k \in {} |-> Value_new(<<>>, FALSE)]
insert(m, k, v) == [x \in (DOMAIN m) \cup {k} |-> IF x = k THEN v ELSE m[x]]
remove(m, k) == [x \in (DOMAIN m) \ {k} |-> m[x]]

----------------------------------------------------------------------------
(* entity/record.rs *)

\* Record::new
Record_new(label, secret) ==
    [label |-> label, secret |-> secret, revealed_secret |-> None,
     extras |-> EmptyEntries]

\* Record::add_extra
Record_add_extra(r, key, value, is_secret) ==
    [r EXCEPT !.extras = insert(r.extras, key, Value_new(value, is_secret))]

\* reveal that forgets the earlier plaintext when the cipher fails
reveal_clears_on_error(r, key) ==
    LET decrypt_extras == [k \in DOMAIN r.extras |-> inner(r.extras[k])]
        result == aes_decrypt(r.secret, key, decrypt_extras)
    IN  IF IsPanic(result) THEN [panic |-> TRUE, ret |-> FALSE, rec |-> r]
        ELSE IF IsErr(result)
             THEN [panic |-> FALSE, ret |-> FALSE,
                   rec |-> [r EXCEPT !.revealed_secret = None]]
        ELSE IF ~from_utf8_ok(result.val)
             THEN [panic |-> TRUE, ret |-> FALSE, rec |-> r]
        ELSE [panic |-> FALSE, ret |-> TRUE,
              rec |-> [r EXCEPT !.revealed_secret = Some(result.val)]]

\* Record::reveal with the aes-gcm decrypt function: the outcome is a panic, or
\* the returned boolean and the record after the call
reveal(r, key) ==
    LET decrypt_extras == [k \in DOMAIN r.extras |-> inner(r.extras[k])]
        result == aes_decrypt(r.secret, key, decrypt_extras)
    IN  IF IsPanic(result) THEN [panic |-> TRUE, ret |-> FALSE, rec |-> r]
        ELSE IF IsErr(result) THEN [panic |-> FALSE, ret |-> FALSE, rec |-> r]
        ELSE IF ~from_utf8_ok(result.val)
             THEN [panic |-> TRUE, ret |-> FALSE, rec |-> r]
        ELSE [panic |-> FALSE, ret |-> TRUE,
              rec |-> [r EXCEPT !.revealed_secret = Some(result.val)]]

----------------------------------------------------------------------------
(* entity/collection.rs *)

\* Collection::new
Collection_new(label) ==
    [label |-> label, children |-> <<>>, records |-> <<>>,
     extras |-> EmptyEntries]

\* Collection::add_extra
Collection_add_extra(c, key, value, is_secret) ==
    [c EXCEPT !.extras = insert(c.extras, key, Value_new(value, is_secret))]

\* Collection::add_record
add_record(c, record) == [c EXCEPT !.records = Append(c.records, record)]

\* add_child that puts the child in front of the earlier ones
add_child_prepends(c, child) == [c EXCEPT !.children = <<child>> \o c.children]

\* Collection::add_child
add_child(c, child) == [c EXCEPT !.children = Append(c.children, child)]

\* descent by Collection::get_child_mut along a path of child indices
RECURSIVE get_child(_, _)
get_child(c, path) ==
    IF path = <<>> THEN c ELSE get_child(c.children[Head(path)], Tail(path))

\* the tree with the collection at path replaced (a write through the
\* mutable reference get_child_mut hands out)
RECURSIVE put_child(_, _, _)
put_child(c, path, new) ==
    IF path = <<>> THEN new
    ELSE [c EXCEPT !.children[Head(path)] =
             put_child(c.children[Head(path)], Tail(path), new)]

\* the paths of all collections of a tree
RECURSIVE CollPaths(_)
CollPaths(c) ==
    {<<>>} \cup UNION {{<<i>> \o p : p \in CollPaths(c.children[i])} :
                          i \in 1..Len(c.children)}

RECURSIVE SumSeq(_)
SumSeq(s) == IF s = <<>> THEN 0 ELSE Head(s) + SumSeq(Tail(s))

RecordExtras(c) ==
    SumSeq([i \in 1..Len(c.records) |-> Cardinality(DOMAIN c.records[i].extras)])

\* numbers of child collections, records and extras entries in a tree
RECURSIVE CountChildren(_)
CountChildren(c) ==
    Len(c.children) + SumSeq([i \in 1..Len(c.children) |-> CountChildren(c.children[i])])
RECURSIVE CountRecords(_)
CountRecords(c) ==
    Len(c.records) + SumSeq([i \in 1..Len(c.children) |-> CountRecords(c.children[i])])
RECURSIVE CountExtras(_)
CountExtras(c) ==
    Cardinality(DOMAIN c.extras) + RecordExtras(c)
        + SumSeq([i \in 1..Len(c.children) |-> CountExtras(c.children[i])])

----------------------------------------------------------------------------
(* entity.rs *)

\* Header::new
Header_new(version, mkhf, khf, kc, mkh, mks, ks, extras) ==
    [version |-> version, master_key_hash_fn |-> mkhf, key_hash_fn |-> khf,
     master_key_hash |-> mkh, key_cipher |-> kc, master_key_salt |-> mks,
     key_salt |-> ks, key |-> None, extras |-> extras]

\* Header::set_key, Header::get_key
set_key(h, key) == [h EXCEPT !.key = Some(key)]
get_key(h) == h.key

\* add_extra that builds the header anew, the key slot empty again
Swd_add_extra_rebuilds(h, key, value, is_secret) ==
    [h EXCEPT !.extras = insert(h.extras, key, Value_new(value, is_secret)),
              !.key = None]

\* Swd::add_extra
Swd_add_extra(h, key, value, is_secret) ==
    [h EXCEPT !.extras = insert(h.extras, key, Value_new(value, is_secret))]

\* validate_master_key salting with key_salt
validate_master_key_key_salt(h, master_key) ==
    LET r == get_function(h.master_key_hash_fn, master_key \o h.key_salt)
    IN  IF IsPanic(r) THEN Panic ELSE Ok(r.val = h.master_key_hash)

\* Swd::validate_master_key: Ok(valid), or the panic of the registry lookup
validate_master_key(h, master_key) ==
    LET r == get_function(h.master_key_hash_fn, master_key \o h.master_key_salt)
    IN  IF IsPanic(r) THEN Panic ELSE Ok(r.val = h.master_key_hash)

\* Swd::populate_key: Ok(header with the key set), or the panic of the lookup
populate_key(h, master_key) ==
    LET r == get_function(h.key_hash_fn, master_key \o h.key_salt)
    IN  IF IsPanic(r) THEN Panic ELSE Ok(set_key(h, r.val))

\* unlock that empties the key slot when the master key is wrong
unlock_forgets_on_failure(h, master_key) ==
    LET valid == validate_master_key(h, master_key)
    IN  IF IsPanic(valid) THEN [panic |-> TRUE, ret |-> FALSE, header |-> h]
        ELSE IF ~valid.val
             THEN [panic |-> FALSE, ret |-> FALSE, header |-> [h EXCEPT !.key = None]]
        ELSE LET p == populate_key(h, master_key)
             IN  IF IsPanic(p) THEN [panic |-> TRUE, ret |-> FALSE, header |-> h]
                 ELSE [panic |-> FALSE, ret |-> TRUE, header |-> p.val]

\* unlock that refuses a container already unlocked
unlock_refuses_when_unlocked(h, master_key) ==
    LET valid == validate_master_key(h, master_key)
    IN  IF IsPanic(valid) THEN [panic |-> TRUE, ret |-> FALSE, header |-> h]
        ELSE IF ~valid.val \/ h.key.some
             THEN [panic |-> FALSE, ret |-> FALSE, header |-> h]
        ELSE LET p == populate_key(h, master_key)
             IN  IF IsPanic(p) THEN [panic |-> TRUE, ret |-> FALSE, header |-> h]
                 ELSE [panic |-> FALSE, ret |-> TRUE, header |-> p.val]

\* Swd::unlock: a panic, or the returned boolean and the header after the call
unlock(h, master_key) ==
    LET valid == validate_master_key(h, master_key)
    IN  IF IsPanic(valid) THEN [panic |-> TRUE, ret |-> FALSE, header |-> h]
        ELSE IF ~valid.val THEN [panic |-> FALSE, ret |-> FALSE, header |-> h]
        ELSE LET p == populate_key(h, master_key)
             IN  IF IsPanic(p) THEN [panic |-> TRUE, ret |-> FALSE, header |-> h]
                 ELSE [panic |-> FALSE, ret |-> TRUE, header |-> p.val]

----------------------------------------------------------------------------
(* The serializer: the to_bytes methods *)

VERSION_BYTES_LENGTH == 4
VALUE_LENGTH_BYTES_LENGTH == 2
VALUE_STARTER_BYTE == 0
KEY_STARTER_BYTE == 0
SECRET_VALUE_STARTER_BYTE == 1
RECORD_STARTER_BYTE == 2
COLLECTION_STARTER_BYTE == 3
COLLECTION_ENDER_BYTE == 4

\* util::MAGIC_NUMBER: a fixed 8-byte prefix
MAGIC_NUMBER == <<83, 87, 79, 82, 68, 83, 0, 1>>

\* (n as u16).to_be_bytes(), u32::to_be_bytes
u16_to_be_bytes(n) == <<(n \div 256) % 256, n % 256>>
u32_to_be_bytes(n) ==
    <<(n \div 16777216) % 256, (n \div 65536) % 256, (n \div 256) % 256, n % 256>>
u16_from_be_bytes(b) == 256 * b[1] + b[2]
u32_from_be_bytes(b) == 16777216 * b[1] + 65536 * b[2] + 256 * b[3] + b[4]

\* Value::to_bytes: the length and the payload
Value_to_bytes(v) == u16_to_be_bytes(Len(v.value)) \o v.value

\* Value::str_to_bytes: a text framed as a value, with its starter byte
str_to_bytes(s, is_secret) ==
    <<IF is_secret THEN SECRET_VALUE_STARTER_BYTE ELSE VALUE_STARTER_BYTE>>
        \o u16_to_be_bytes(Len(s)) \o s

\* the keys of a map in the order an iteration visits them: ord lists keys,
\* and the map's own keys come in the order ord gives them
iter(m, ord) == SelectSeq(ord, LAMBDA k : k \in DOMAIN m)

RECURSIVE Flatten(_)
Flatten(ss) == IF ss = <<>> THEN <<>> ELSE Head(ss) \o Flatten(Tail(ss))

\* for (key, value) in extras.iter() { str_to_bytes(key, false); value.to_bytes() }
extras_to_bytes(m, ord) ==
    LET ks == iter(m, ord)
    IN  Flatten([i \in 1..Len(ks) |->
                    str_to_bytes(ks[i], FALSE) \o Value_to_bytes(m[ks[i]])])

\* Record::label_bytes, Record::secret_bytes
label_bytes == Value_to_bytes(Value_new(K_label, FALSE))
secret_bytes == Value_to_bytes(Value_new(K_secret, FALSE))

\* to_bytes that also writes the revealed plaintext
Record_to_bytes_with_plaintext(r, ord) ==
    <<RECORD_STARTER_BYTE>>
        \o label_bytes
        \o str_to_bytes(r.label, FALSE)
        \o secret_bytes
        \o Value_to_bytes(Value_new(r.secret, TRUE))
        \o (IF r.revealed_secret.some THEN str_to_bytes(r.revealed_secret.val, TRUE)
            ELSE <<>>)
        \o extras_to_bytes(r.extras, ord)

\* Record::to_bytes
Record_to_bytes(r, ord) ==
    <<RECORD_STARTER_BYTE>>
        \o label_bytes
        \o str_to_bytes(r.label, FALSE)
        \o secret_bytes
        \o Value_to_bytes(Value_new(r.secret, TRUE))
        \o extras_to_bytes(r.extras, ord)

\* Collection::to_bytes
RECURSIVE Collection_to_bytes(_, _)
Collection_to_bytes(c, ord) ==
    <<COLLECTION_STARTER_BYTE>>
        \o extras_to_bytes(c.extras, ord)
        \o Flatten([i \in 1..Len(c.children) |-> Collection_to_bytes(c.children[i], ord)])
        \o Flatten([i \in 1..Len(c.records) |-> Record_to_bytes(c.records[i], ord)])
        \o <<COLLECTION_ENDER_BYTE>>

\* Header::version_bytes
version_bytes(h) == u32_to_be_bytes(h.version)

\* Header::to_bytes
Header_to_bytes(h, ord) ==
    str_to_bytes(K_v, FALSE)
        \o version_bytes(h)
        \o str_to_bytes(K_mkhf, FALSE)
        \o str_to_bytes(h.master_key_hash_fn, FALSE)
        \o str_to_bytes(K_khf, FALSE)
        \o str_to_bytes(h.key_hash_fn, FALSE)
        \o str_to_bytes(K_mks, FALSE)
        \o h.master_key_salt
        \o str_to_bytes(K_ks, FALSE)
        \o h.key_salt
        \o str_to_bytes(K_mkh, FALSE)
        \o h.master_key_hash
        \o extras_to_bytes(h.extras, ord)

\* Swd::to_bytes
Swd_to_bytes(h, r, ord) ==
    MAGIC_NUMBER \o Header_to_bytes(h, ord) \o Collection_to_bytes(r, ord)

----------------------------------------------------------------------------
(* error.rs: ParseError *)

InvalidMagicNumber == [kind |-> "InvalidMagicNumber"]
InvalidVersionNumber == [kind |-> "InvalidVersionNumber"]
UnexpectedStarterByte == [kind |-> "UnexpectedStarterByte"]
UnexpectedEndOfFile == [kind |-> "UnexpectedEndOfFile"]
MissingRequiredField(f) == [kind |-> "MissingRequiredField", field |-> f]
ForbiddenSecretField(f) == [kind |-> "ForbiddenSecretField", field |-> f]
ForbiddenNonSecretField(f) == [kind |-> "ForbiddenNonSecretField", field |-> f]
UnexpectedEndOfValue(remain, need) ==
    [kind |-> "UnexpectedEndOfValue", remain |-> remain, need |-> need]
EncodingError == [kind |-> "EncodingError"]

----------------------------------------------------------------------------
(* io/parser.rs: the parser.  The cursor (remaining_input) is threaded      *)
(* through: a successful step returns its value and the input left.        *)

POk(v, rest) == [tag |-> "Ok", val |-> v, rest |-> rest]

\* let x = e; F(x): e is evaluated once and F applied to its value
Then(e, F(_)) == CHOOSE r \in {F(x) : x \in {e}} : TRUE

\* Value::parse_string
parse_string(v) == IF from_utf8_ok(v.value) THEN Ok(v.value) ELSE Err(EncodingError)

\* Parser::ensure_remaining_input
ensure_remaining_input(inp) ==
    IF Len(inp) = 0 THEN Err(UnexpectedEndOfFile) ELSE POk(TRUE, inp)

\* Parser::ensure_remaining_length
ensure_remaining_length(inp, length, err) ==
    IF Len(inp) < length THEN Err(err) ELSE POk(TRUE, inp)

\* Parser::take_bytes
take_bytes(inp, length, err) ==
    IF IsErr(ensure_remaining_length(inp, length, err)) THEN Err(err)
    ELSE POk(Take(inp, length), Drop(inp, length))

\* check_magic_number that leaves the last byte out
check_magic_number_skips_last(magic_number) ==
    \A i \in 1..(Len(MAGIC_NUMBER) - 1) : magic_number[i] = MAGIC_NUMBER[i]

\* Parser::check_magic_number
check_magic_number(magic_number) ==
    \A i \in 1..Len(MAGIC_NUMBER) : magic_number[i] = MAGIC_NUMBER[i]

\* Parser::ensure_magic_number
ensure_magic_number(inp) ==
    Then(take_bytes(inp, Len(MAGIC_NUMBER), UnexpectedEndOfFile), LAMBDA m :
        IF ~IsOk(m) THEN m
        ELSE IF ~check_magic_number(m.val) THEN Err(InvalidMagicNumber)
        ELSE POk(TRUE, m.rest))

\* ensure_starter_byte without the comparison
ensure_starter_byte_any(inp, starter_byte) ==
    IF IsErr(ensure_remaining_input(inp)) THEN Err(UnexpectedEndOfFile)
    ELSE POk(starter_byte, Drop(inp, 1))

\* Parser::ensure_starter_byte
ensure_starter_byte(inp, starter_byte) ==
    IF IsErr(ensure_remaining_input(inp)) THEN Err(UnexpectedEndOfFile)
    ELSE IF inp[1] # starter_byte THEN Err(UnexpectedStarterByte)
    ELSE POk(starter_byte, Drop(inp, 1))

\* Parser::peek_starter_byte
peek_starter_byte(inp) ==
    IF IsErr(ensure_remaining_input(inp)) THEN Err(UnexpectedEndOfFile)
    ELSE POk(inp[1], inp)

\* parse_value reporting the needed and the remaining length in the wrong
\* order
parse_value_swapped_report(inp, is_secret) ==
    Then(ensure_starter_byte(inp, IF is_secret THEN SECRET_VALUE_STARTER_BYTE
                                  ELSE VALUE_STARTER_BYTE), LAMBDA s :
        IF ~IsOk(s) THEN s
        ELSE IF IsErr(ensure_remaining_length(s.rest, VALUE_LENGTH_BYTES_LENGTH,
                                              UnexpectedEndOfFile))
             THEN Err(UnexpectedEndOfFile)
        ELSE Then(u16_from_be_bytes(Take(s.rest, VALUE_LENGTH_BYTES_LENGTH)),
                  LAMBDA length :
             Then(Drop(s.rest, VALUE_LENGTH_BYTES_LENGTH), LAMBDA r2 :
             Then(ensure_remaining_length(r2, length,
                                          UnexpectedEndOfValue(length, Len(r2))),
                  LAMBDA g :
             IF ~IsOk(g) THEN g
             ELSE POk(Value_new(Take(r2, length), is_secret), Drop(r2, length))))))

\* Parser::parse_value
parse_value(inp, is_secret) ==
    Then(ensure_starter_byte(inp, IF is_secret THEN SECRET_VALUE_STARTER_BYTE
                                  ELSE VALUE_STARTER_BYTE), LAMBDA s :
        IF ~IsOk(s) THEN s
        ELSE IF IsErr(ensure_remaining_length(s.rest, VALUE_LENGTH_BYTES_LENGTH,
                                              UnexpectedEndOfFile))
             THEN Err(UnexpectedEndOfFile)
        ELSE Then(u16_from_be_bytes(Take(s.rest, VALUE_LENGTH_BYTES_LENGTH)),
                  LAMBDA length :
             Then(Drop(s.rest, VALUE_LENGTH_BYTES_LENGTH), LAMBDA r2 :
             Then(ensure_remaining_length(r2, length,
                                          UnexpectedEndOfValue(Len(r2), length)),
                  LAMBDA g :
             IF ~IsOk(g) THEN g
             ELSE POk(Value_new(Take(r2, length), is_secret), Drop(r2, length))))))

\* Parser::parse_key_value: the value is a pair <<key, value>>
parse_key_value(inp) ==
    Then(parse_value(inp, FALSE), LAMBDA key :
        IF ~IsOk(key) THEN key ELSE
    Then(peek_starter_byte(key.rest), LAMBDA p :
        IF ~IsOk(p) THEN p ELSE
    Then(parse_value(key.rest, p.val = SECRET_VALUE_STARTER_BYTE), LAMBDA value :
        IF ~IsOk(value) THEN value ELSE
    Then(parse_string(key.val), LAMBDA k :
        IF ~IsOk(k) THEN k
        ELSE POk(<<k.val, value.val>>, value.rest)))))

\* Parser::parse_version
parse_version(inp) ==
    IF IsErr(ensure_remaining_length(inp, VERSION_BYTES_LENGTH, UnexpectedEndOfFile))
    THEN Err(UnexpectedEndOfFile)
    ELSE POk(u32_from_be_bytes(Take(inp, VERSION_BYTES_LENGTH)),
             Drop(inp, VERSION_BYTES_LENGTH))

----------------------------------------------------------------------------
(* The TryFrom conversions of entity.rs, record.rs and collection.rs *)

\* the required header fields without "v"
REQUIRED_HEADER_FIELDS_without_v == <<K_mkhf, K_khf, K_mks, K_ks, K_mkh, K_kc>>

REQUIRED_HEADER_FIELDS == <<K_v, K_mkhf, K_khf, K_mks, K_ks, K_mkh, K_kc>>

REQUIRED_RECORD_FIELDS == <<K_label>>

REQUIRED_RECORD_SECRET_FIELDS == <<K_secret>>

REQUIRED_COLLECTION_FIELDS == <<K_label>>

\* the loop over the required fields without the check of the secrecy flag
RECURSIVE check_required_ignores_secret(_, _)
check_required_ignores_secret(raw, fields) ==
    IF fields = <<>> THEN Ok(TRUE)
    ELSE IF Head(fields) \notin DOMAIN raw
         THEN Err(MissingRequiredField(Head(fields)))
    ELSE check_required_ignores_secret(raw, Tail(fields))

\* the loop over the required non-secret fields: the first error, in order
RECURSIVE check_required(_, _)
check_required(raw, fields) ==
    IF fields = <<>> THEN Ok(TRUE)
    ELSE IF Head(fields) \notin DOMAIN raw
         THEN Err(MissingRequiredField(Head(fields)))
    ELSE IF raw[Head(fields)].is_secret
         THEN Err(ForbiddenSecretField(Head(fields)))
    ELSE check_required(raw, Tail(fields))

\* the loop over the required secret fields
RECURSIVE check_required_secret(_, _)
check_required_secret(raw, fields) ==
    IF fields = <<>> THEN Ok(TRUE)
    ELSE IF Head(fields) \notin DOMAIN raw
         THEN Err(MissingRequiredField(Head(fields)))
    ELSE IF ~raw[Head(fields)].is_secret
         THEN Err(ForbiddenNonSecretField(Head(fields)))
    ELSE check_required_secret(raw, Tail(fields))

\* impl TryFrom<Entries> for Record
Record_try_from(raw_record) ==
    Then(check_required(raw_record, REQUIRED_RECORD_FIELDS), LAMBDA c1 :
        IF ~IsOk(c1) THEN c1 ELSE
    Then(check_required_secret(raw_record, REQUIRED_RECORD_SECRET_FIELDS), LAMBDA c2 :
        IF ~IsOk(c2) THEN c2 ELSE
    Then(parse_string(raw_record[K_label]), LAMBDA label :
        IF ~IsOk(label) THEN label
        ELSE Ok([label |-> label.val,
                 secret |-> raw_record[K_secret].value,
                 revealed_secret |-> None,
                 extras |-> remove(remove(raw_record, K_label), K_secret)]))))

\* impl TryFrom<(Vec<Collection>, Vec<Record>, Entries)> for Collection
Collection_try_from(children, records, extras) ==
    Then(check_required(extras, REQUIRED_COLLECTION_FIELDS), LAMBDA c1 :
        IF ~IsOk(c1) THEN c1 ELSE
    Then(parse_string(extras[K_label]), LAMBDA label :
        IF ~IsOk(label) THEN label
        ELSE Ok([label |-> label.val, children |-> children,
                 records |-> records, extras |-> remove(extras, K_label)])))

\* raw_header.remove(k).unwrap(): the value and the map without it, or a panic
remove_unwrap(m, k) ==
    IF k \in DOMAIN m THEN Ok([value |-> m[k], map |-> remove(m, k)]) ELSE Panic

\* the extraction of the fields after the version, in the order of the code
Header_fields(raw) ==
    Then(remove_unwrap(raw, K_mkhf), LAMBDA a :
        IF ~IsOk(a) THEN a ELSE
    Then(parse_string(a.val.value), LAMBDA master_key_hash_fn :
        IF ~IsOk(master_key_hash_fn) THEN master_key_hash_fn ELSE
    Then(remove_unwrap(a.val.map, K_khf), LAMBDA b :
        IF ~IsOk(b) THEN b ELSE
    Then(parse_string(b.val.value), LAMBDA key_hash_fn :
        IF ~IsOk(key_hash_fn) THEN key_hash_fn ELSE
    Then(remove_unwrap(b.val.map, K_kc), LAMBDA c :
        IF ~IsOk(c) THEN c ELSE
    Then(parse_string(c.val.value), LAMBDA key_cipher :
        IF ~IsOk(key_cipher) THEN key_cipher ELSE
    Then(remove_unwrap(c.val.map, K_mks), LAMBDA d :
        IF ~IsOk(d) THEN d ELSE
    Then(remove_unwrap(d.val.map, K_ks), LAMBDA e :
        IF ~IsOk(e) THEN e ELSE
    Then(remove_unwrap(e.val.map, K_mkh), LAMBDA f :
        IF ~IsOk(f) THEN f ELSE
        Ok(Header_new(0, master_key_hash_fn.val, key_hash_fn.val, key_cipher.val,
                      f.val.value.value, d.val.value.value, e.val.value.value,
                      f.val.map)))))))))))

\* the conversion without the loop over the required fields
Header_try_from_unchecked(raw_header) ==
    Then(remove_unwrap(raw_header, K_mkhf), LAMBDA v :
        IF ~IsOk(v) THEN v
        ELSE IF Len(v.val.value.value) # VERSION_BYTES_LENGTH
             THEN Err(InvalidVersionNumber)
        ELSE Header_fields(v.val.map))

\* impl TryFrom<Entries> for Header: the version bytes are taken from "mkhf"
Header_try_from(raw_header) ==
    Then(check_required(raw_header, REQUIRED_HEADER_FIELDS), LAMBDA c1 :
        IF ~IsOk(c1) THEN c1 ELSE
    Then(remove_unwrap(raw_header, K_mkhf), LAMBDA v :
        IF ~IsOk(v) THEN v
        ELSE IF Len(v.val.value.value) # VERSION_BYTES_LENGTH
             THEN Err(InvalidVersionNumber)
        ELSE Header_fields(v.val.map)))

\* Header::set_version
set_version(h, version) == [h EXCEPT !.version = version]

----------------------------------------------------------------------------
(* io/parser.rs: records, collections, the header, the file *)

\* the while loop of parse_record ending as soon as the record holds its
\* label and its secret
RECURSIVE record_loop_until_complete(_, _, _)
record_loop_until_complete(inp, raw_record, starter_byte) ==
    IF starter_byte # VALUE_STARTER_BYTE
          \/ (K_label \in DOMAIN raw_record /\ K_secret \in DOMAIN raw_record)
    THEN POk(raw_record, inp)
    ELSE Then(parse_key_value(inp), LAMBDA kv :
             IF ~IsOk(kv) THEN kv ELSE
         Then(peek_starter_byte(kv.rest), LAMBDA p :
         Then(insert(raw_record, kv.val[1], kv.val[2]), LAMBDA raw2 :
             record_loop_until_complete(kv.rest, raw2,
                                        IF IsOk(p) THEN p.val ELSE 255))))

\* the while loop of parse_record: after a pair, a failed peek (end of
\* input) reads as 0xff and ends the loop
RECURSIVE record_loop(_, _, _)
record_loop(inp, raw_record, starter_byte) ==
    IF starter_byte # VALUE_STARTER_BYTE THEN POk(raw_record, inp)
    ELSE Then(parse_key_value(inp), LAMBDA kv :
             IF ~IsOk(kv) THEN kv ELSE
         Then(peek_starter_byte(kv.rest), LAMBDA p :
         Then(insert(raw_record, kv.val[1], kv.val[2]), LAMBDA raw2 :
             record_loop(kv.rest, raw2, IF IsOk(p) THEN p.val ELSE 255))))

\* Parser::parse_record
parse_record(inp) ==
    Then(ensure_starter_byte(inp, RECORD_STARTER_BYTE), LAMBDA s :
        IF ~IsOk(s) THEN s ELSE
    Then(peek_starter_byte(s.rest), LAMBDA p :
        IF ~IsOk(p) THEN p ELSE
    Then(record_loop(s.rest, EmptyEntries, p.val), LAMBDA l :
        IF ~IsOk(l) THEN l ELSE
    Then(Record_try_from(l.val), LAMBDA record :
        IF ~IsOk(record) THEN record
        ELSE POk(record.val, l.rest)))))

RECURSIVE parse_collection(_)

\* the match on the starter byte putting a child or a record in front of the
\* earlier ones
collection_item_prepends(inp, acc, starter_byte) ==
    IF starter_byte = VALUE_STARTER_BYTE
    THEN Then(parse_key_value(inp), LAMBDA kv :
             IF ~IsOk(kv) THEN kv
             ELSE POk([acc EXCEPT !.extras = insert(acc.extras, kv.val[1], kv.val[2])],
                      kv.rest))
    ELSE IF starter_byte = COLLECTION_STARTER_BYTE
    THEN Then(parse_collection(inp), LAMBDA collection :
             IF ~IsOk(collection) THEN collection
             ELSE POk([acc EXCEPT !.children = <<collection.val>> \o acc.children],
                      collection.rest))
    ELSE IF starter_byte = RECORD_STARTER_BYTE
    THEN Then(parse_record(inp), LAMBDA record :
             IF ~IsOk(record) THEN record
             ELSE POk([acc EXCEPT !.records = <<record.val>> \o acc.records],
                      record.rest))
    ELSE Err(UnexpectedStarterByte)

\* one turn of the while loop of parse_collection: the match on the starter
\* byte; acc holds children, records and extras
collection_item(inp, acc, starter_byte) ==
    IF starter_byte = VALUE_STARTER_BYTE
    THEN Then(parse_key_value(inp), LAMBDA kv :
             IF ~IsOk(kv) THEN kv
             ELSE POk([acc EXCEPT !.extras = insert(acc.extras, kv.val[1], kv.val[2])],
                      kv.rest))
    ELSE IF starter_byte = COLLECTION_STARTER_BYTE
    THEN Then(parse_collection(inp), LAMBDA collection :
             IF ~IsOk(collection) THEN collection
             ELSE POk([acc EXCEPT !.children = Append(acc.children, collection.val)],
                      collection.rest))
    ELSE IF starter_byte = RECORD_STARTER_BYTE
    THEN Then(parse_record(inp), LAMBDA record :
             IF ~IsOk(record) THEN record
             ELSE POk([acc EXCEPT !.records = Append(acc.records, record.val)],
                      record.rest))
    ELSE Err(UnexpectedStarterByte)

\* the while loop looking at the byte after the ender and refusing one that
\* starts no item
RECURSIVE collection_loop_checks_after_ender(_, _, _)
collection_loop_checks_after_ender(inp, acc, starter_byte) ==
    IF starter_byte = COLLECTION_ENDER_BYTE
    THEN IF Len(inp) > 1
              /\ inp[2] \notin {VALUE_STARTER_BYTE, RECORD_STARTER_BYTE,
                                COLLECTION_STARTER_BYTE, COLLECTION_ENDER_BYTE}
         THEN Err(UnexpectedStarterByte)
         ELSE POk(acc, inp)
    ELSE Then(collection_item(inp, acc, starter_byte), LAMBDA step :
             IF ~IsOk(step) THEN step ELSE
         Then(peek_starter_byte(step.rest), LAMBDA p :
             IF ~IsOk(p) THEN p
             ELSE collection_loop_checks_after_ender(step.rest, step.val, p.val)))

\* the while loop taking the end of the input for the ender
RECURSIVE collection_loop_eof_ends(_, _, _)
collection_loop_eof_ends(inp, acc, starter_byte) ==
    IF starter_byte = COLLECTION_ENDER_BYTE THEN POk(acc, inp)
    ELSE Then(collection_item(inp, acc, starter_byte), LAMBDA step :
             IF ~IsOk(step) THEN step ELSE
         Then(peek_starter_byte(step.rest), LAMBDA p :
             IF ~IsOk(p) THEN POk(step.val, step.rest)
             ELSE collection_loop_eof_ends(step.rest, step.val, p.val)))

\* the while loop of parse_collection
RECURSIVE collection_loop(_, _, _)
collection_loop(inp, acc, starter_byte) ==
    IF starter_byte = COLLECTION_ENDER_BYTE THEN POk(acc, inp)
    ELSE Then(collection_item(inp, acc, starter_byte), LAMBDA step :
             IF ~IsOk(step) THEN step ELSE
         Then(peek_starter_byte(step.rest), LAMBDA p :
             IF ~IsOk(p) THEN p
             ELSE collection_loop(step.rest, step.val, p.val)))

\* Parser::parse_collection
parse_collection(inp) ==
    Then(ensure_starter_byte(inp, COLLECTION_STARTER_BYTE), LAMBDA s :
        IF ~IsOk(s) THEN s ELSE
    Then(peek_starter_byte(s.rest), LAMBDA p :
        IF ~IsOk(p) THEN p ELSE
    Then(collection_loop(s.rest, [children |-> <<>>, records |-> <<>>,
                                  extras |-> EmptyEntries], p.val), LAMBDA l :
        IF ~IsOk(l) THEN l ELSE
    Then(Collection_try_from(l.val.children, l.val.records, l.val.extras),
         LAMBDA collection :
        IF ~IsOk(collection) THEN collection
        ELSE POk(collection.val, Drop(l.rest, 1))))))

\* the while loop of parse_header
RECURSIVE header_loop(_, _, _)
header_loop(inp, raw_header, starter_byte) ==
    IF starter_byte # VALUE_STARTER_BYTE THEN POk(raw_header, inp)
    ELSE Then(parse_key_value(inp), LAMBDA kv :
             IF ~IsOk(kv) THEN kv ELSE
         Then(peek_starter_byte(kv.rest), LAMBDA p :
             IF ~IsOk(p) THEN p ELSE
         Then(insert(raw_header, kv.val[1], kv.val[2]), LAMBDA raw2 :
             header_loop(kv.rest, raw2, p.val))))

\* Parser::parse_header
parse_header(inp) ==
    Then(parse_version(inp), LAMBDA version :
        IF ~IsOk(version) THEN version ELSE
    Then(peek_starter_byte(version.rest), LAMBDA p :
        IF ~IsOk(p) THEN p ELSE
    Then(header_loop(version.rest, EmptyEntries, p.val), LAMBDA l :
        IF ~IsOk(l) THEN l ELSE
    Then(Header_try_from(l.val), LAMBDA header :
        IF ~IsOk(header) THEN header
        ELSE POk(set_version(header.val, version.val), l.rest)))))

\* Parser::parse: Ok with the header and the root of the container read
parse(input) ==
    Then(ensure_magic_number(input), LAMBDA m :
        IF ~IsOk(m) THEN m ELSE
    Then(parse_header(m.rest), LAMBDA header :
        IF ~IsOk(header) THEN header ELSE
    Then(parse_collection(header.rest), LAMBDA collection :
        IF ~IsOk(collection) THEN collection
        ELSE Ok([header |-> header.val, root |-> collection.val]))))

----------------------------------------------------------------------------
(* The container as a state machine: a Swd built by Header::new and        *)
(* Swd::new with the default registries, then any sequence of the public   *)
(* operations.                                                             *)

VARIABLES
    header,     \* Swd.header
    root,       \* Swd.root
    last,       \* the last call: its name, arguments and outcome
    hist        \* history: has an unlock returned true; per master key, the
                \* key slot after its first successful unlock

vars == <<header, root, last, hist>>

\* inputs
MasterKeys == {<<4>>, <<5>>, <<1>>}
CorrectMasterKey == <<4>>
MasterKeySalt == <<1>>
KeySalt == <<2>>
HashNames == {N_sha3, N_md5}
L_root == <<114>>
Labels == {<<103>>}
Nonce0 == [i \in 1..NonceSize |-> 7]
Nonce1 == [i \in 1..NonceSize |-> 8]
ExtraKeys == {K_nonce, K_label}
ExtraValues == {Nonce0, Nonce1}
DerivedKey == sha3_256(CorrectMasterKey \o KeySalt)
OtherKey == sha3_256(<<5>> \o KeySalt)
ShortKey == <<9>>
RevealKeys == {DerivedKey, OtherKey, ShortKey}
P_text == <<104>>
P_not_utf8 == <<255>>
Plaintexts == {P_text, P_not_utf8}
\* a ciphertext with one byte changed
Tampered(c) == {[c EXCEPT ![i] = (c[i] + 1) % 256] : i \in 1..Len(c)}
Secrets ==
    {Seal(p, DerivedKey, Nonce0) : p \in Plaintexts}
        \cup Tampered(Seal(P_text, DerivedKey, Nonce0))
\* the orders an iteration over a map may take
Orders == {<<K_nonce, K_label>>, <<K_label, K_nonce>>}

TotalExtras == Cardinality(DOMAIN header.extras) + CountExtras(root)
MayInsert(m, k) == k \in DOMAIN m \/ TotalExtras < MaxExtras

Init ==
    /\ \E mkhf \in HashNames, khf \in HashNames :
          header = Header_new(1, mkhf, khf, N_aes,
                              sha3_256(CorrectMasterKey \o MasterKeySalt),
                              MasterKeySalt, KeySalt, EmptyEntries)
    /\ root = Collection_new(L_root)
    /\ last = [op |-> "new", panic |-> FALSE]
    /\ hist = [unlocked |-> FALSE, first |-> [mk \in MasterKeys |-> None]]

\* Swd::unlock(master_key)
Unlock(mk) ==
    /\ ~last.panic
    /\ LET u == unlock(header, mk)
       IN  /\ header' = u.header
           /\ last' = [op |-> "unlock", panic |-> u.panic, ret |-> u.ret,
                       mk |-> mk, repeat |-> hist.first[mk].some]
           /\ hist' = [unlocked |-> hist.unlocked \/ u.ret,
                       first |-> IF u.ret /\ ~hist.first[mk].some
                                 THEN [hist.first EXCEPT ![mk] = u.header.key]
                                 ELSE hist.first]
    /\ UNCHANGED root

\* Swd::add_extra(key, value, is_secret)
SwdAddExtra(k, v, s) ==
    /\ ~last.panic
    /\ MayInsert(header.extras, k)
    /\ header' = Swd_add_extra(header, k, v, s)
    /\ last' = [op |-> "swd_add_extra", panic |-> FALSE]
    /\ UNCHANGED <<root, hist>>

\* Collection::add_child(Collection::new(label)) on the collection at path
AddChild(path, label) ==
    /\ ~last.panic
    /\ CountChildren(root) < MaxChildren
    /\ Len(path) < MaxDepth
    /\ root' = put_child(root, path, add_child(get_child(root, path), Collection_new(label)))
    /\ last' = [op |-> "add_child", panic |-> FALSE]
    /\ UNCHANGED <<header, hist>>

\* Collection::add_record(Record::new(label, secret)) on the collection at path
AddRecord(path, label, secret) ==
    /\ ~last.panic
    /\ CountRecords(root) < MaxRecords
    /\ root' = put_child(root, path,
                  add_record(get_child(root, path), Record_new(label, secret)))
    /\ last' = [op |-> "add_record", panic |-> FALSE]
    /\ UNCHANGED <<header, hist>>

\* Collection::add_extra(key, value, is_secret) on the collection at path
CollectionAddExtra(path, k, v, s) ==
    /\ ~last.panic
    /\ MayInsert(get_child(root, path).extras, k)
    /\ root' = put_child(root, path,
                  Collection_add_extra(get_child(root, path), k, v, s))
    /\ last' = [op |-> "collection_add_extra", panic |-> FALSE]
    /\ UNCHANGED <<header, hist>>

\* Record::add_extra(key, value, is_secret) on record i of the collection at path
RecordAddExtra(path, i, k, v, s) ==
    /\ ~last.panic
    /\ LET c == get_child(root, path)
       IN  /\ i \in 1..Len(c.records)
           /\ MayInsert(c.records[i].extras, k)
           /\ root' = put_child(root, path,
                         [c EXCEPT !.records[i] = Record_add_extra(c.records[i], k, v, s)])
    /\ last' = [op |-> "record_add_extra", panic |-> FALSE]
    /\ UNCHANGED <<header, hist>>

\* Record::reveal(aes_decrypt, key) on record i of the collection at path
Reveal(path, i, key) ==
    /\ ~last.panic
    /\ LET c == get_child(root, path)
       IN  /\ i \in 1..Len(c.records)
           /\ LET r == reveal(c.records[i], key)
              IN  /\ root' = put_child(root, path, [c EXCEPT !.records[i] = r.rec])
                  /\ last' = [op |-> "reveal", panic |-> r.panic, ret |-> r.ret,
                              path |-> path, idx |-> i, key |-> key]
    /\ UNCHANGED <<header, hist>>

\* Swd::to_bytes(), the maps iterated in the order ord
ToBytes(ord) ==
    /\ ~last.panic
    /\ last' = [op |-> "to_bytes", panic |-> FALSE,
                bytes |-> Swd_to_bytes(header, root, ord)]
    /\ UNCHANGED <<header, root, hist>>

\* Parser::parse on the bytes to_bytes has just returned
Parse ==
    /\ ~last.panic
    /\ last.op = "to_bytes"
    /\ LET result == parse(last.bytes)
       IN  last' = [op |-> "parse", panic |-> IsPanic(result),
                    input |-> last.bytes, result |-> result]
    /\ UNCHANGED <<header, root, hist>>

Next ==
    \/ \E mk \in MasterKeys : Unlock(mk)
    \/ \E k \in ExtraKeys, v \in ExtraValues, s \in BOOLEAN : SwdAddExtra(k, v, s)
    \/ \E path \in CollPaths(root), label \in Labels : AddChild(path, label)
    \/ \E path \in CollPaths(root), label \in Labels, secret \in Secrets :
          AddRecord(path, label, secret)
    \/ \E path \in CollPaths(root), k \in ExtraKeys, v \in ExtraValues, s \in BOOLEAN :
          CollectionAddExtra(path, k, v, s)
    \/ \E path \in CollPaths(root), i \in 1..MaxRecords, k \in ExtraKeys,
          v \in ExtraValues, s \in BOOLEAN : RecordAddExtra(path, i, k, v, s)
    \/ \E path \in CollPaths(root), i \in 1..MaxRecords, key \in RevealKeys :
          Reveal(path, i, key)
    \/ \E ord \in Orders : ToBytes(ord)
    \/ Parse

Spec == Init /\ [][Next]_vars

----------------------------------------------------------------------------
(* Properties *)

\* the record the last reveal was called on
LastRecord == get_child(root, last.path).records[last.idx]

\* the bytes of the extras of a record, as reveal hands them to the cipher
ExtrasBytes(r) == [k \in DOMAIN r.extras |-> inner(r.extras[k])]

\* the records of a tree
RECURSIVE AllRecords(_)
AllRecords(c) ==
    {c.records[i] : i \in 1..Len(c.records)}
        \cup UNION {AllRecords(c.children[i]) : i \in 1..Len(c.children)}

\* the extras maps of a tree: of every collection and of every record
RECURSIVE AllExtras(_)
AllExtras(c) ==
    <<c.extras>>
        \o [i \in 1..Len(c.records) |-> c.records[i].extras]
        \o Flatten([i \in 1..Len(c.children) |-> AllExtras(c.children[i])])

\* a header and a tree with the transient state dropped: the key slot and
\* every revealed_secret empty
PersistentHeader(h) == [h EXCEPT !.key = None]
RECURSIVE PersistentTree(_)
PersistentTree(c) ==
    [c EXCEPT
        !.records = [i \in 1..Len(c.records) |->
                        [c.records[i] EXCEPT !.revealed_secret = None]],
        !.children = [i \in 1..Len(c.children) |-> PersistentTree(c.children[i])]]

\* both hash function names of the header are in the hash registry
Registered(h) ==
    /\ h.master_key_hash_fn \in HashRegistryNames
    /\ h.key_hash_fn \in HashRegistryNames

\* sequences of equal length differing in exactly one place
OneByteChanged(c, d) ==
    /\ Len(c) = Len(d)
    /\ Cardinality({i \in 1..Len(c) : c[i] # d[i]}) = 1

\* C1: parsing the bytes to_bytes wrote succeeds and gives back the
\* container: the same header fields and header extras, and the same tree of
\* labels, children and records in order, each with its extras.
C1_RoundTrip ==
    last.op = "parse" =>
        /\ IsOk(last.result)
        /\ PersistentHeader(last.result.val.header) = PersistentHeader(header)
        /\ PersistentTree(last.result.val.root) = PersistentTree(root)

C3_FailedUnlockUnchanged ==
    [][(last'.op = "unlock" /\ ~last'.panic /\ ~last'.ret) =>
          (header' = header /\ root' = root)]_vars

\* an unlock has returned false on a container unlocked before
C3_Witness ==
    /\ last.op = "unlock"
    /\ ~last.panic
    /\ ~last.ret
    /\ get_key(header).some

\* C4: when unlock(mk) has returned true once, a later unlock(mk) returns
\* true again and leaves the key slot as the first call left it, the rest of
\* the container untouched.
C4_UnlockIdempotent ==
    [][(last'.op = "unlock" /\ hist.first[last'.mk].some) =>
          /\ ~last'.panic
          /\ last'.ret
          /\ header' = [header EXCEPT !.key = hist.first[last'.mk]]
          /\ root' = root]_vars

\* unlock has succeeded a second time with the same master key
C4_Witness ==
    /\ last.op = "unlock"
    /\ last.repeat
    /\ last.ret
    /\ get_key(header) = hist.first[last.mk]

\* C5: the key slot is empty exactly when no unlock has returned true yet.
C5_KeySlotLifetime == (get_key(header) = None) <=> ~hist.unlocked

\* the key slot is still filled after a later failed unlock and a later
\* add_extra
C5_Witness ==
    /\ hist.unlocked
    /\ get_key(header).some
    /\ last.op = "unlock"
    /\ ~last.ret
    /\ ~last.panic
    /\ DOMAIN header.extras # {}

\* C6: when the secret of the record is the encryption of a valid UTF-8
\* plaintext p under the key and the extras of the record, reveal with that
\* key returns true and revealed_secret is p; when the secret is such a
\* ciphertext with one byte changed, reveal returns false.
C6_RevealCorrect ==
    last.op = "reveal" =>
        \A p \in Plaintexts :
            LET c == aes_encrypt(p, last.key, ExtrasBytes(LastRecord))
            IN  (from_utf8_ok(p) /\ IsOk(c)) =>
                    /\ c.val = LastRecord.secret =>
                          /\ ~last.panic
                          /\ last.ret
                          /\ LastRecord.revealed_secret = Some(p)
                    /\ OneByteChanged(c.val, LastRecord.secret) =>
                          /\ ~last.panic
                          /\ ~last.ret

\* reveal has returned true on a record holding the encryption of the text
C6_Witness ==
    /\ last.op = "reveal"
    /\ last.ret
    /\ LastRecord.secret = Seal(P_text, last.key, Nonce0)
    /\ LastRecord.revealed_secret = Some(P_text)

\* C7: when the cipher returns an error, reveal returns false and the record
\* (revealed_secret, label, secret, extras) and all the rest are as before.
C7_RevealFailureUnchanged ==
    [][(/\ last'.op = "reveal"
        /\ LET r == get_child(root, last'.path).records[last'.idx]
           IN  IsErr(aes_decrypt(r.secret, last'.key, ExtrasBytes(r)))) =>
          /\ ~last'.panic
          /\ ~last'.ret
          /\ root' = root
          /\ header' = header]_vars

\* reveal has returned false on a record revealed before, the plaintext kept
C7_Witness ==
    /\ last.op = "reveal"
    /\ ~last.panic
    /\ ~last.ret
    /\ LastRecord.revealed_secret = Some(P_text)
    /\ IsErr(aes_decrypt(LastRecord.secret, last.key, ExtrasBytes(LastRecord)))

\* C8: reveal returns a boolean and does not abort; when the cipher succeeds
\* with bytes that are not valid UTF-8, reveal returns false and
\* revealed_secret stays as it was.
C8_RevealNoPanicOnBadUtf8 ==
    (/\ last.op = "reveal"
     /\ LET d == aes_decrypt(LastRecord.secret, last.key, ExtrasBytes(LastRecord))
        IN  IsOk(d) /\ ~from_utf8_ok(d.val)) =>
        (~last.panic /\ ~last.ret)

\* C9: the bytes to_bytes writes do not depend on the transient state: they
\* are the bytes of the container with the key slot and every
\* revealed_secret empty.
C9_TransientNotSerialized ==
    \A ord \in Orders :
        Swd_to_bytes(header, root, ord)
            = Swd_to_bytes(PersistentHeader(header), PersistentTree(root), ord)

\* to_bytes has run on a container with the key slot filled and a record
\* revealed
C9_Witness ==
    /\ last.op = "to_bytes"
    /\ get_key(header).some
    /\ \E r \in AllRecords(root) : r.revealed_secret.some

\* C10: every extras entry of the container, in the header, a collection or
\* a record, comes back from parse(to_bytes) under the same key with the
\* same secrecy flag and the same bytes.
C10_SecrecyPreserved ==
    (last.op = "parse" /\ TotalExtras > 0) =>
        /\ IsOk(last.result)
        /\ last.result.val.header.extras = header.extras
        /\ AllExtras(last.result.val.root) = AllExtras(root)

----------------------------------------------------------------------------
(* The parser and Value::to_bytes on their own: a Parser is made, bytes    *)
(* are injected (Parser::inject_input, as the tests of parser.rs do) and   *)
(* one parsing function runs on them; or a Value is written by to_bytes    *)
(* and read back by parse_value.                                           *)

\* longest input of the exhaustive short inputs
MaxInputLen == 5
\* longest payload of the framed values
MaxPayload == 2
\* the number of values of a u16: the width of the length field
U16_RANGE == 65536

\* [starter][length: u16 big-endian][payload], as the tests' dummy_label
Framed(starter, payload) == <<starter>> \o u16_to_be_bytes(Len(payload)) \o payload

\* a key/value pair on the wire
Pair(k, v, value_starter) ==
    Framed(KEY_STARTER_BYTE, k) \o Framed(value_starter, v)

\* the starter byte of a value with the given secrecy
StarterOf(is_secret) ==
    IF is_secret THEN SECRET_VALUE_STARTER_BYTE ELSE VALUE_STARTER_BYTE

\* all sequences over S of length at most n
RECURSIVE SeqsUpTo(_, _)
SeqsUpTo(S, n) ==
    IF n = 0 THEN {<<>>}
    ELSE LET shorter == SeqsUpTo(S, n - 1)
         IN  shorter \cup {Append(t, x) : t \in {u \in shorter : Len(u) = n - 1}, x \in S}

\* a byte that is no starter byte.  (The tests use 0xff; a version whose
\* first byte is 0xff does not fit the integers of the model checker, and
\* every function runs on every input.)
NoStarter == <<5>>

\* the bytes of the short inputs: the value starters, another starter, no starter
ShortBytes == {VALUE_STARTER_BYTE, SECRET_VALUE_STARTER_BYTE, RECORD_STARTER_BYTE} \cup
              {NoStarter[1]}
ShortInputs == SeqsUpTo(ShortBytes, MaxInputLen)

\* payloads of up to MaxPayload bytes
Payload(n) == [i \in 1..n |-> 103 + i]
Payloads == {Payload(n) : n \in 0..MaxPayload}

\* a starter byte, a length field and a payload that may be shorter or
\* longer than declared; and inputs that end within the length field
ValueInputs ==
    {<<st>> \o u16_to_be_bytes(declared) \o p :
        st \in ShortBytes, declared \in 0..(MaxPayload + 1), p \in Payloads}
    \cup {<<st>> : st \in ShortBytes}
    \cup {<<st, 0>> : st \in ShortBytes}

\* a key, well-formed or not, followed by a value, well-formed or not, or
\* by nothing
KeyInputs ==
    {Framed(st, k) : st \in {KEY_STARTER_BYTE, SECRET_VALUE_STARTER_BYTE, NoStarter[1]},
                     k \in {<<>>, <<107>>, <<255>>}}
    \cup {<<KEY_STARTER_BYTE, 0, 3, 109>>}
KeyValueInputs ==
    {k \o v : k \in KeyInputs, v \in ValueInputs \cup {<<>>}}

\* the magic number, its proper prefixes, and the magic number with one
\* byte changed, followed by more input or not
MagicTails == {<<>>, <<0, 0, 0, 1>>, <<0, 0, 0, 1, 3, 4>>}
MagicInputs ==
    {Take(MAGIC_NUMBER, n) : n \in 0..(Len(MAGIC_NUMBER) - 1)}
    \cup {MAGIC_NUMBER \o t : t \in MagicTails}
    \cup {[MAGIC_NUMBER EXCEPT ![i] = (MAGIC_NUMBER[i] + d) % 256] \o t :
             i \in 1..Len(MAGIC_NUMBER), d \in {1, 255}, t \in MagicTails}
    \cup {[i \in 1..Len(MAGIC_NUMBER) |-> 0]}

\* the values of the required header fields in the file of a container
\* made with the names nm for the master key hash function
HeaderValue(f, nm) ==
    IF f = K_v THEN <<0, 0, 0, 1>>
    ELSE IF f = K_mkhf THEN nm
    ELSE IF f = K_khf THEN N_sha3
    ELSE IF f = K_kc THEN N_aes
    ELSE IF f = K_mks THEN <<1>>
    ELSE IF f = K_ks THEN <<2>>
    ELSE <<8, 15>>

\* names of the master key hash function: the registered one and one of
\* four bytes
N_sha3_short == <<115, 104, 97, 51>>
HeaderNames == {N_sha3, N_sha3_short}

HeaderFieldSet == {REQUIRED_HEADER_FIELDS[i] : i \in 1..Len(REQUIRED_HEADER_FIELDS)}
Reverse(q) == [i \in 1..Len(q) |-> q[Len(q) + 1 - i]]
HeaderOrders == {REQUIRED_HEADER_FIELDS, Reverse(REQUIRED_HEADER_FIELDS)}

\* an entry that is no required field, non-secret or secret
K_note == <<110>>
ExtraPairs == {<<>>, Pair(K_note, <<7>>, VALUE_STARTER_BYTE),
               Pair(K_note, <<7>>, SECRET_VALUE_STARTER_BYTE)}

\* a header body: the version, then the required fields in the order ord,
\* without the field drop and with the field flip marked secret (None: no
\* field dropped or flipped), then an entry that is no required field
HeaderBody(ord, drop, flip, nm, extra) ==
    <<0, 0, 0, 1>>
        \o Flatten([i \in 1..Len(ord) |->
              IF drop = Some(ord[i]) THEN <<>>
              ELSE Pair(ord[i], HeaderValue(ord[i], nm),
                        StarterOf(flip = Some(ord[i])))])
        \o extra

OptField == {None} \cup {Some(f) : f \in HeaderFieldSet}

\* a root collection with its label and nothing else
L_abc == <<97, 98, 99>>
LabelPair(starter) == Pair(K_label, L_abc, starter)
MinimalCollection ==
    <<COLLECTION_STARTER_BYTE>> \o LabelPair(VALUE_STARTER_BYTE)
        \o <<COLLECTION_ENDER_BYTE>>

\* header bodies followed by the root collection
HeaderInputs ==
    {HeaderBody(ord, drop, flip, nm, extra) \o MinimalCollection :
        ord \in HeaderOrders, drop \in OptField, flip \in OptField,
        nm \in HeaderNames, extra \in ExtraPairs}
    \cup {<<0, 0, 0, 1, COLLECTION_STARTER_BYTE, COLLECTION_ENDER_BYTE>>}

\* files: the magic number, a header body, the root collection
FileInputs == {MAGIC_NUMBER \o h : h \in HeaderInputs}

\* records: the starter, then the label and the secret entries, each
\* absent, with the non-secret or with the secret starter, in either order,
\* then another entry or not
OptStarter == {None, Some(VALUE_STARTER_BYTE), Some(SECRET_VALUE_STARTER_BYTE)}
S_def == <<100, 101, 102>>
OptPair(k, v, st) == IF st.some THEN Pair(k, v, st.val) ELSE <<>>
RecordBody(label, secret, first, extra) ==
    <<RECORD_STARTER_BYTE>>
        \o (IF first THEN OptPair(K_label, L_abc, label) \o OptPair(K_secret, S_def, secret)
            ELSE OptPair(K_secret, S_def, secret) \o OptPair(K_label, L_abc, label))
        \o extra
RecordInputs ==
    {RecordBody(label, secret, first, extra) \o t :
        label \in OptStarter, secret \in OptStarter, first \in BOOLEAN,
        extra \in ExtraPairs, t \in {<<>>, <<COLLECTION_ENDER_BYTE>>}}

\* collections: the starter, the label entry or not, a child, a record,
\* the ender
GoodRecord == RecordBody(Some(VALUE_STARTER_BYTE), Some(SECRET_VALUE_STARTER_BYTE), TRUE, <<>>)
CollectionItems ==
    {<<>>, GoodRecord, MinimalCollection, MinimalCollection \o GoodRecord,
     RecordBody(Some(SECRET_VALUE_STARTER_BYTE), Some(SECRET_VALUE_STARTER_BYTE), TRUE, <<>>),
     RecordBody(None, Some(SECRET_VALUE_STARTER_BYTE), TRUE, <<>>),
     RecordBody(Some(VALUE_STARTER_BYTE), Some(VALUE_STARTER_BYTE), TRUE, <<>>),
     <<COLLECTION_STARTER_BYTE>> \o LabelPair(SECRET_VALUE_STARTER_BYTE)
         \o <<COLLECTION_ENDER_BYTE>>,
     <<COLLECTION_STARTER_BYTE, COLLECTION_ENDER_BYTE>>}
CollectionInputs ==
    {<<COLLECTION_STARTER_BYTE>> \o OptPair(K_label, L_abc, label) \o extra \o items
        \o <<COLLECTION_ENDER_BYTE>> :
        label \in OptStarter, extra \in ExtraPairs, items \in CollectionItems}

\* the inputs of the parser tests: a collection with two records, and a
\* collection with two such children and three records
dummy_collection ==
    <<COLLECTION_STARTER_BYTE>> \o LabelPair(VALUE_STARTER_BYTE)
        \o GoodRecord \o GoodRecord \o <<COLLECTION_ENDER_BYTE>>
dummy_collection_nested ==
    <<COLLECTION_STARTER_BYTE>> \o LabelPair(VALUE_STARTER_BYTE)
        \o dummy_collection \o dummy_collection
        \o GoodRecord \o GoodRecord \o GoodRecord \o <<COLLECTION_ENDER_BYTE>>

\* the items of a collection body as blocks: a record, a child collection
\* with a body of its own, a key/value pair; each with its kind, its label
\* (the key, for a pair) and its bytes
MaxBlocks == 3
L_x == <<120>>
L_y == <<121>>
L_p == <<112>>
L_q == <<113>>
RecordBlock(l) ==
    [kind |-> "record", label |-> l,
     bytes |-> <<RECORD_STARTER_BYTE>> \o Pair(K_label, l, VALUE_STARTER_BYTE)
                   \o Pair(K_secret, S_def, SECRET_VALUE_STARTER_BYTE)]
ChildBlock(l, body) ==
    [kind |-> "child", label |-> l,
     bytes |-> <<COLLECTION_STARTER_BYTE>> \o Pair(K_label, l, VALUE_STARTER_BYTE)
                   \o body \o <<COLLECTION_ENDER_BYTE>>]
NoteBlock ==
    [kind |-> "pair", label |-> K_note,
     bytes |-> Pair(K_note, <<7>>, VALUE_STARTER_BYTE)]
Blocks ==
    {RecordBlock(L_x), RecordBlock(L_y), ChildBlock(L_p, <<>>),
     ChildBlock(L_q, RecordBlock(L_y).bytes \o NoteBlock.bytes), NoteBlock}
BlockBytes(bs) == Flatten([i \in 1..Len(bs) |-> bs[i].bytes])

\* what follows the blocks: nothing, the ender, the ender and more, a byte
\* that starts no item
BlockTails ==
    {<<>>, <<COLLECTION_ENDER_BYTE>>, <<COLLECTION_ENDER_BYTE, 7>>,
     <<COLLECTION_ENDER_BYTE, COLLECTION_ENDER_BYTE>>,
     <<SECRET_VALUE_STARTER_BYTE, COLLECTION_ENDER_BYTE>>,
     <<NoStarter[1], COLLECTION_ENDER_BYTE>>}

\* a collection body of blocks after the label, with its tail
BlockCases ==
    {[blocks |-> bs, tail |-> t,
      input |-> <<COLLECTION_STARTER_BYTE>> \o LabelPair(VALUE_STARTER_BYTE)
                    \o BlockBytes(bs) \o t] :
        bs \in SeqsUpTo(Blocks, MaxBlocks), t \in BlockTails}

\* no body of blocks
NoBlocks == [blocks |-> <<>>, tail |-> <<>>, input |-> <<>>]

\* the inputs injected into the parser
ParserInputs ==
    ShortInputs \cup ValueInputs \cup KeyValueInputs \cup MagicInputs
        \cup HeaderInputs \cup FileInputs \cup RecordInputs \cup CollectionInputs

\* the values written by to_bytes: short payloads, and one payload of
\* U16_RANGE bytes, one more than the length field can state
LongPayload == [i \in 1..U16_RANGE |-> 0]
WrittenPayloads == Payloads \cup {<<255>>, LongPayload}

\* Parser::new and a container that plays no part
ParserInit ==
    /\ header = Header_new(1, N_sha3, N_sha3, N_aes,
                           sha3_256(CorrectMasterKey \o MasterKeySalt),
                           MasterKeySalt, KeySalt, EmptyEntries)
    /\ root = Collection_new(L_root)
    /\ hist = [unlocked |-> FALSE, first |-> [mk \in MasterKeys |-> None]]
    /\ last = [op |-> "Parser::new", panic |-> FALSE]

\* Parser::inject_input(input)
InjectInput(input) ==
    /\ last.op = "Parser::new"
    /\ last' = [op |-> "inject_input", panic |-> FALSE, input |-> input]
    /\ UNCHANGED <<header, root, hist>>

\* one parsing function run on the injected input: its name, the input, the
\* result
Ran(name, result) ==
    /\ last.op = "inject_input"
    /\ last' = [op |-> name, panic |-> IsPanic(result), input |-> last.input,
                result |-> result]
    /\ UNCHANGED <<header, root, hist>>

EnsureMagicNumber == Ran("ensure_magic_number", ensure_magic_number(last.input))
ParseVersion == Ran("parse_version", parse_version(last.input))
ParseValue(is_secret) ==
    /\ last.op = "inject_input"
    /\ last' = [op |-> "parse_value", panic |-> FALSE, input |-> last.input,
                is_secret |-> is_secret,
                result |-> parse_value(last.input, is_secret)]
    /\ UNCHANGED <<header, root, hist>>
ParseKeyValue == Ran("parse_key_value", parse_key_value(last.input))
ParseRecord == Ran("parse_record", parse_record(last.input))
ParseCollection == Ran("parse_collection", parse_collection(last.input))
ParseHeader == Ran("parse_header", parse_header(last.input))
ParseFile == Ran("parse", parse(last.input))

\* Value::new(payload, is_secret).to_bytes()
ValueToBytes(payload, is_secret) ==
    /\ last.op = "Parser::new"
    /\ last' = [op |-> "to_bytes", panic |-> FALSE,
                value |-> Value_new(payload, is_secret),
                bytes |-> Value_to_bytes(Value_new(payload, is_secret))]
    /\ UNCHANGED <<header, root, hist>>

\* parse_value(is_secret) on the bytes to_bytes has written for a value of
\* that secrecy
ParseValueBack ==
    /\ last.op = "to_bytes"
    /\ last' = [op |-> "parse_value_back", panic |-> FALSE, value |-> last.value,
                input |-> last.bytes,
                result |-> parse_value(last.bytes, last.value.is_secret)]
    /\ UNCHANGED <<header, root, hist>>

ParserNext ==
    \/ \E input \in ParserInputs : InjectInput(input)
    \/ EnsureMagicNumber
    \/ ParseVersion
    \/ \E is_secret \in BOOLEAN : ParseValue(is_secret)
    \/ ParseKeyValue
    \/ ParseRecord
    \/ ParseCollection
    \/ ParseHeader
    \/ ParseFile
    \/ \E payload \in WrittenPayloads, is_secret \in BOOLEAN :
          ValueToBytes(payload, is_secret)
    \/ ParseValueBack

ParserSpec == ParserInit /\ [][ParserNext]_vars

----------------------------------------------------------------------------
(* Properties of the parser and of Value::to_bytes *)

\* the functions that begin with the magic check
MagicOps == {"ensure_magic_number", "parse"}

\* C11: an input of at least 8 bytes whose first 8 bytes are not the magic
\* number fails with InvalidMagicNumber, in ensure_magic_number and in
\* parse; a shorter input fails with UnexpectedEndOfFile; on an input that
\* starts with the magic number ensure_magic_number succeeds and leaves the
\* input after its first 8 bytes, and parse does not fail with
\* InvalidMagicNumber.
C11_MagicRejection ==
    last.op \in MagicOps =>
        LET n == Len(MAGIC_NUMBER)
        IN  /\ Len(last.input) < n => last.result = Err(UnexpectedEndOfFile)
            /\ (Len(last.input) >= n /\ Take(last.input, n) # MAGIC_NUMBER) =>
                  last.result = Err(InvalidMagicNumber)
            /\ (Len(last.input) >= n /\ Take(last.input, n) = MAGIC_NUMBER) =>
                  /\ last.result # Err(InvalidMagicNumber)
                  /\ last.op = "ensure_magic_number" =>
                        /\ IsOk(last.result)
                        /\ last.result.rest = Drop(last.input, n)

\* the magic check has rejected an input that differs from the magic number
\* in its last byte only
C11_Witness ==
    /\ last.op = "ensure_magic_number"
    /\ Len(last.input) > Len(MAGIC_NUMBER)
    /\ Take(last.input, Len(MAGIC_NUMBER) - 1) = Take(MAGIC_NUMBER, Len(MAGIC_NUMBER) - 1)
    /\ last.result = Err(InvalidMagicNumber)

\* the entry of the header inputs that is no required field: present or not
HasNote(extra) == extra # <<>>

\* C12: on a header body with the version and all seven required fields,
\* non-secret, the three names valid UTF-8, parse_header succeeds; the
\* header has the version of the prefix, each field has the value of its
\* key, and the entry that is no required field is in the extras.
C12_WellFormedHeader ==
    last.op = "parse_header" =>
        \A ord \in HeaderOrders, nm \in HeaderNames, extra \in ExtraPairs :
            last.input = HeaderBody(ord, None, None, nm, extra) \o MinimalCollection =>
                /\ IsOk(last.result)
                /\ last.result.val.version = 1
                /\ last.result.val.master_key_hash_fn = nm
                /\ last.result.val.key_hash_fn = N_sha3
                /\ last.result.val.key_cipher = N_aes
                /\ last.result.val.master_key_salt = <<1>>
                /\ last.result.val.key_salt = <<2>>
                /\ last.result.val.master_key_hash = <<8, 15>>
                /\ HasNote(extra) <=> K_note \in DOMAIN last.result.val.extras
                /\ last.result.rest = MinimalCollection

\* the header fields the missing-field property names
C13_Fields == {K_mkhf, K_khf, K_mks, K_ks, K_mkh, K_kc}

\* C13: a header with every required field but n, all non-secret, fails
\* with MissingRequiredField(n), in parse_header and in the parse of the
\* file, for n any of mkhf, khf, mks, ks, mkh, kc.
C13_HeaderMissingField ==
    last.op \in {"parse_header", "parse"} =>
        \A n \in C13_Fields, ord \in HeaderOrders, nm \in HeaderNames,
           extra \in ExtraPairs :
            LET body == HeaderBody(ord, Some(n), None, nm, extra) \o MinimalCollection
            IN  last.input = (IF last.op = "parse" THEN MAGIC_NUMBER ELSE <<>>) \o body
                    => last.result = Err(MissingRequiredField(n))

\* the parse of a file without "kc", the field to_bytes does not write, has
\* failed naming it
C13_Witness ==
    /\ last.op = "parse"
    /\ last.input = MAGIC_NUMBER
          \o HeaderBody(REQUIRED_HEADER_FIELDS, Some(K_kc), None, N_sha3, <<>>)
          \o MinimalCollection
    /\ last.result = Err(MissingRequiredField(K_kc))

\* the file with a header without entries and an empty root collection
EmptyHeaderFile ==
    MAGIC_NUMBER \o <<0, 0, 0, 1>>
        \o <<COLLECTION_STARTER_BYTE>> \o <<COLLECTION_ENDER_BYTE>>

\* C14 as stated: the parse of the file with a header without entries fails
\* with MissingRequiredField("mkhf").
C14_EmptyHeaderNamesMkhf ==
    (last.op = "parse" /\ last.input = EmptyHeaderFile) =>
        last.result = Err(MissingRequiredField(K_mkhf))

\* C14 amended: the parse of the file with a header without entries fails
\* with MissingRequiredField("v"), the first of the required header fields.
C14_EmptyHeaderNamesV ==
    (last.op = "parse" /\ last.input = EmptyHeaderFile) =>
        last.result = Err(MissingRequiredField(K_v))

\* the file with a header without entries has been parsed
C14_Witness ==
    /\ last.op = "parse"
    /\ last.input = EmptyHeaderFile
    /\ IsErr(last.result)
    /\ last.result.err.kind = "MissingRequiredField"

\* the items of a collection that parse: none, a record, a child, both
WellFormedItems == {<<>>, GoodRecord, MinimalCollection, MinimalCollection \o GoodRecord}

\* C15: an input well-formed but for one required non-secret field f that
\* carries the secret starter fails with ForbiddenSecretField(f): each of the
\* seven header fields in parse_header and parse, the label of a collection
\* in parse_collection, the label of a record in parse_record.
C15_ForbiddenSecret ==
    /\ last.op \in {"parse_header", "parse"} =>
           \A f \in HeaderFieldSet, ord \in HeaderOrders, nm \in HeaderNames,
              extra \in ExtraPairs :
               LET body == HeaderBody(ord, None, Some(f), nm, extra) \o MinimalCollection
               IN  last.input = (IF last.op = "parse" THEN MAGIC_NUMBER ELSE <<>>) \o body
                       => last.result = Err(ForbiddenSecretField(f))
    /\ last.op = "parse_collection" =>
           \A extra \in ExtraPairs, items \in WellFormedItems :
               last.input = <<COLLECTION_STARTER_BYTE>>
                                \o LabelPair(SECRET_VALUE_STARTER_BYTE) \o extra \o items
                                \o <<COLLECTION_ENDER_BYTE>>
                   => last.result = Err(ForbiddenSecretField(K_label))
    /\ last.op = "parse_record" =>
           \A first \in BOOLEAN, extra \in ExtraPairs,
              t \in {<<>>, <<COLLECTION_ENDER_BYTE>>} :
               last.input = RecordBody(Some(SECRET_VALUE_STARTER_BYTE),
                                       Some(SECRET_VALUE_STARTER_BYTE), first, extra) \o t
                   => last.result = Err(ForbiddenSecretField(K_label))

\* a collection with a secret label, a child and a record has been refused
C15_Witness ==
    /\ last.op = "parse_collection"
    /\ last.input = <<COLLECTION_STARTER_BYTE>>
                        \o LabelPair(SECRET_VALUE_STARTER_BYTE)
                        \o MinimalCollection \o GoodRecord
                        \o <<COLLECTION_ENDER_BYTE>>
    /\ last.result = Err(ForbiddenSecretField(K_label))

\* C16: parse_record fails with MissingRequiredField("label") on a record
\* without label entry, with MissingRequiredField("secret") on a record with
\* a label and no secret entry, with ForbiddenNonSecretField("secret") on a
\* record whose secret entry is not marked secret; parse_collection fails
\* with MissingRequiredField("label") on a collection without label entry.
C16_RequiredFields ==
    /\ last.op = "parse_record" =>
           \A secret \in OptStarter, first \in BOOLEAN, extra \in ExtraPairs,
              t \in {<<>>, <<COLLECTION_ENDER_BYTE>>} :
               /\ last.input = RecordBody(None, secret, first, extra) \o t
                      => last.result = Err(MissingRequiredField(K_label))
               /\ last.input = RecordBody(Some(VALUE_STARTER_BYTE), None, first, extra) \o t
                      => last.result = Err(MissingRequiredField(K_secret))
               /\ last.input = RecordBody(Some(VALUE_STARTER_BYTE),
                                          Some(VALUE_STARTER_BYTE), first, extra) \o t
                      => last.result = Err(ForbiddenNonSecretField(K_secret))
    /\ last.op = "parse_collection" =>
           \A extra \in ExtraPairs, items \in WellFormedItems :
               last.input = <<COLLECTION_STARTER_BYTE>> \o extra \o items
                                \o <<COLLECTION_ENDER_BYTE>>
                   => last.result = Err(MissingRequiredField(K_label))

\* the bytes before the payload of a framed value: starter and length
FrameLength == 1 + VALUE_LENGTH_BYTES_LENGTH

\* the length a framed value declares, of an input of FrameLength bytes or more
DeclaredLength(inp) == 256 * inp[2] + inp[3]

\* the input starts with a whole framed value of starter st
WellFramed(inp, st) ==
    /\ Len(inp) >= FrameLength
    /\ inp[1] = st
    /\ DeclaredLength(inp) <= Len(inp) - FrameLength

\* the payload of the framed value a well-framed input starts with, and
\* the input after it
FramedPayload(inp) == SubSeq(inp, FrameLength + 1, FrameLength + DeclaredLength(inp))
AfterFramed(inp) == SubSeq(inp, FrameLength + DeclaredLength(inp) + 1, Len(inp))

\* the error of the length guards on an input where a value of starter st
\* is expected, None where they raise none
GuardError(inp, st) ==
    IF inp = <<>> THEN Some(UnexpectedEndOfFile)
    ELSE IF inp[1] # st THEN None
    ELSE IF Len(inp) - 1 < VALUE_LENGTH_BYTES_LENGTH THEN Some(UnexpectedEndOfFile)
    ELSE IF DeclaredLength(inp) > Len(inp) - FrameLength
         THEN Some(UnexpectedEndOfValue(Len(inp) - FrameLength, DeclaredLength(inp)))
    ELSE None

\* the starter parse_key_value expects of the value at the head of r
ValueStarterAt(r) ==
    IF r # <<>> /\ r[1] = SECRET_VALUE_STARTER_BYTE THEN SECRET_VALUE_STARTER_BYTE
    ELSE VALUE_STARTER_BYTE

\* C17: parse_value fails with UnexpectedEndOfFile on the empty input and on
\* fewer than 2 bytes after the starter, and with UnexpectedEndOfValue(R, L)
\* when the declared length L exceeds the R bytes after the length field;
\* the same for the key and for the value of parse_key_value; what is
\* returned lies within the input and the remaining input is its suffix.
C17_LengthGuards ==
    /\ last.op = "parse_value" =>
           LET g == GuardError(last.input, StarterOf(last.is_secret))
           IN  /\ g.some => last.result = Err(g.val)
               /\ IsOk(last.result) =>
                      /\ WellFramed(last.input, StarterOf(last.is_secret))
                      /\ last.result.val.value = FramedPayload(last.input)
                      /\ last.result.rest = AfterFramed(last.input)
    /\ last.op = "parse_key_value" =>
           LET gk == GuardError(last.input, KEY_STARTER_BYTE)
           IN  /\ gk.some => last.result = Err(gk.val)
               /\ WellFramed(last.input, KEY_STARTER_BYTE) =>
                      LET r  == AfterFramed(last.input)
                          gv == GuardError(r, ValueStarterAt(r))
                      IN  gv.some => last.result = Err(gv.val)
               /\ IsOk(last.result) =>
                      /\ WellFramed(last.input, KEY_STARTER_BYTE)
                      /\ LET r == AfterFramed(last.input)
                         IN  /\ WellFramed(r, ValueStarterAt(r))
                             /\ last.result.val[1] = FramedPayload(last.input)
                             /\ last.result.val[2].value = FramedPayload(r)
                             /\ last.result.rest = AfterFramed(r)

\* parse_key_value has refused a value that declares more than what is left,
\* after a key it has read whole
C17_Witness ==
    /\ last.op = "parse_key_value"
    /\ WellFramed(last.input, KEY_STARTER_BYTE)
    /\ IsErr(last.result)
    /\ last.result.err.kind = "UnexpectedEndOfValue"
    /\ last.result.err.need > last.result.err.remain
    /\ last.result.err.remain > 0

\* C18: parse_key_value accepts a pair only when the key starts with 0x00
\* and the value with 0x00 or 0x01, and the is_secret flag of the value it
\* returns is true exactly when the value starter was 0x01; a key that
\* starts with another byte, or a value that starts with a byte other than
\* 0x00 and 0x01, fails with UnexpectedStarterByte; input ending right
\* after the key fails with UnexpectedEndOfFile; a pair well-framed with
\* these starters and a UTF-8 key is accepted.
C18_StarterBytes ==
    last.op = "parse_key_value" =>
        /\ (last.input # <<>> /\ last.input[1] # KEY_STARTER_BYTE)
               => last.result = Err(UnexpectedStarterByte)
        /\ WellFramed(last.input, KEY_STARTER_BYTE) =>
               LET r == AfterFramed(last.input)
               IN  /\ r = <<>> => last.result = Err(UnexpectedEndOfFile)
                   /\ (r # <<>> /\ r[1] \notin {VALUE_STARTER_BYTE, SECRET_VALUE_STARTER_BYTE})
                          => last.result = Err(UnexpectedStarterByte)
                   /\ (r # <<>> /\ WellFramed(r, r[1])
                         /\ r[1] \in {VALUE_STARTER_BYTE, SECRET_VALUE_STARTER_BYTE}
                         /\ from_utf8_ok(FramedPayload(last.input)))
                          => IsOk(last.result)
        /\ IsOk(last.result) =>
               /\ last.input[1] = KEY_STARTER_BYTE
               /\ LET r == AfterFramed(last.input)
                  IN  /\ r[1] \in {VALUE_STARTER_BYTE, SECRET_VALUE_STARTER_BYTE}
                      /\ last.result.val[2].is_secret = (r[1] = SECRET_VALUE_STARTER_BYTE)

\* parse_key_value has returned a secret value
C18_Witness ==
    /\ last.op = "parse_key_value"
    /\ IsOk(last.result)
    /\ last.result.val[2].is_secret
    /\ last.result.val[2].value # <<>>

\* C19: for a Value with a payload of n <= 65,535 bytes, to_bytes returns
\* the starter (0x00 non-secret, 0x01 secret), n as 2 bytes big-endian and
\* the payload, and parse_value with the same secrecy flag, applied to
\* these bytes, returns an equal Value and consumes all of them.
C19_ValueFraming ==
    /\ (last.op = "to_bytes" /\ Len(last.value.value) < U16_RANGE) =>
           last.bytes = <<StarterOf(last.value.is_secret)>>
                            \o u16_to_be_bytes(Len(last.value.value))
                            \o last.value.value
    /\ (last.op = "parse_value_back" /\ Len(last.value.value) < U16_RANGE) =>
           last.result = POk(last.value, <<>>)

\* C20: to_bytes fails on a Value whose payload is longer than 65,535
\* bytes; in the bytes it returns, the 2-byte length field before the
\* payload is the length of the payload.
C20_MaxPayloadLength ==
    (last.op = "to_bytes" /\ ~last.panic) =>
        /\ Len(last.value.value) < U16_RANGE
        /\ LET at == Len(last.bytes) - Len(last.value.value)
           IN  /\ at >= VALUE_LENGTH_BYTES_LENGTH
               /\ u16_from_be_bytes(SubSeq(last.bytes, at - 1, at)) = Len(last.value.value)

----------------------------------------------------------------------------
(* Properties of the serializer: Collection::to_bytes, Header::to_bytes,   *)
(* Record::to_bytes                                                        *)

\* the number of places of hay where needle stands
Occurrences(needle, hay) ==
    Cardinality({i \in 1..(Len(hay) - Len(needle) + 1) :
                    SubSeq(hay, i, i + Len(needle) - 1) = needle})

\* the value the header writes for a required field
WrittenHeaderValue(h, f) ==
    CASE f = K_v    -> version_bytes(h)
      [] f = K_mkhf -> h.master_key_hash_fn
      [] f = K_khf  -> h.key_hash_fn
      [] f = K_kc   -> h.key_cipher
      [] f = K_mks  -> h.master_key_salt
      [] f = K_ks   -> h.key_salt
      [] f = K_mkh  -> h.master_key_hash

\* C21: Collection::to_bytes returns 0x03, the entries with a non-secret
\* "label" pair holding the label, the children in order, the records in
\* order, 0x04; so the bytes of the root collection pass the required-label
\* validation of parse_collection.
C21_CollectionBytes ==
    last.op = "to_bytes" =>
        \A ord \in Orders :
            LET b == Collection_to_bytes(root, ord)
            IN  /\ b[1] = COLLECTION_STARTER_BYTE
                /\ b[Len(b)] = COLLECTION_ENDER_BYTE
                /\ Occurrences(Pair(K_label, root.label, VALUE_STARTER_BYTE), b) >= 1
                /\ parse_collection(b) # Err(MissingRequiredField(K_label))

\* C22: Swd::to_bytes writes after the magic number the 4-byte version and
\* then one pair for each of the seven required header fields, each value
\* framed as a non-secret Value.
C22_HeaderBytes ==
    last.op = "to_bytes" =>
        LET b == Drop(last.bytes, Len(MAGIC_NUMBER))
        IN  /\ Take(b, VERSION_BYTES_LENGTH) = version_bytes(header)
            /\ \A i \in 1..Len(REQUIRED_HEADER_FIELDS) :
                   LET f == REQUIRED_HEADER_FIELDS[i]
                   IN  Occurrences(Pair(f, WrittenHeaderValue(header, f),
                                        VALUE_STARTER_BYTE), b) = 1

----------------------------------------------------------------------------
(* The parser on collections, records and files: a Parser is made, a body   *)
(* of blocks or another input is injected, and parse_collection,            *)
(* parse_record or parse runs on it.  hist keeps the blocks the injected    *)
(* bytes were made of.                                                      *)

BlockInit ==
    /\ header = Header_new(1, N_sha3, N_sha3, N_aes,
                           sha3_256(CorrectMasterKey \o MasterKeySalt),
                           MasterKeySalt, KeySalt, EmptyEntries)
    /\ root = Collection_new(L_root)
    /\ hist = NoBlocks
    /\ last = [op |-> "Parser::new", panic |-> FALSE]

\* Parser::inject_input(input) with the bytes of a body of blocks
InjectBlocks(c) ==
    /\ last.op = "Parser::new"
    /\ last' = [op |-> "inject_input", panic |-> FALSE, input |-> c.input]
    /\ hist' = c
    /\ UNCHANGED <<header, root>>

\* the other inputs: records, collections of one item, files, the nested
\* input of the tests
OtherInputs ==
    RecordInputs \cup CollectionInputs \cup FileInputs \cup {dummy_collection_nested}

BlockNext ==
    \/ \E c \in BlockCases : InjectBlocks(c)
    \/ \E input \in OtherInputs : InjectInput(input)
    \/ ParseCollection
    \/ ParseRecord
    \/ ParseFile

BlockSpec == BlockInit /\ [][BlockNext]_vars

\* the injected bytes are those of the body of blocks hist holds
OnBlocks == hist.input = last.input

----------------------------------------------------------------------------
(* Properties of parse_collection and parse_record on bodies of blocks *)

\* the labels of the blocks of one kind, in the order of the blocks
BlockLabels(bs, kind) ==
    LET sel == SelectSeq(bs, LAMBDA b : b.kind = kind)
    IN  [i \in 1..Len(sel) |-> sel[i].label]

\* the labels of a sequence of collections or of records
LabelsOf(items) == [i \in 1..Len(items) |-> items[i].label]

\* the blocks are followed by the ender of the collection
Closed(c) == c.tail # <<>> /\ c.tail[1] = COLLECTION_ENDER_BYTE

\* C23: parse_collection returns the children in the order of the child
\* blocks at the top level of the body and the records in the order of the
\* record blocks; a record inside a child is a record of that child only;
\* the nested input of the tests gives two children and three records.
C23_ParsedOrder ==
    last.op = "parse_collection" =>
        /\ (OnBlocks /\ Closed(hist)) =>
                   /\ IsOk(last.result)
                   /\ LabelsOf(last.result.val.children) = BlockLabels(hist.blocks, "child")
                   /\ LabelsOf(last.result.val.records) = BlockLabels(hist.blocks, "record")
                   /\ \A i \in 1..Len(last.result.val.children) :
                          LET child == last.result.val.children[i]
                          IN  /\ child.children = <<>>
                              /\ LabelsOf(child.records) =
                                     (IF child.label = L_q THEN <<L_y>> ELSE <<>>)
        /\ last.input = dummy_collection_nested =>
               /\ IsOk(last.result)
               /\ LabelsOf(last.result.val.children) = <<L_abc, L_abc>>
               /\ LabelsOf(last.result.val.records) = <<L_abc, L_abc, L_abc>>
               /\ \A i \in 1..2 : Len(last.result.val.children[i].records) = 2

\* a body with the record "y", a child with a record of its own and the
\* record "x" has been parsed
C23_Witness ==
    /\ last.op = "parse_collection"
    /\ IsOk(last.result)
    /\ LabelsOf(last.result.val.records) = <<L_y, L_x>>
    /\ LabelsOf(last.result.val.children) = <<L_q>>
    /\ LabelsOf(last.result.val.children[1].records) = <<L_y>>

----------------------------------------------------------------------------
(* One Collection under its mutators: Collection::new, then add_child,     *)
(* add_record and add_extra in any order, MaxOps calls at most.  hist      *)
(* keeps what was passed in: the children and the records in call order    *)
(* and, per key, the last value added; last keeps the collection as it was *)
(* before the call.                                                        *)

MaxOps == 4

\* Collection::get_child, Collection::get_record: Vec::get of a 0-based index
Collection_get_child(c, index) ==
    IF index < Len(c.children) THEN Some(c.children[index + 1]) ELSE None
Collection_get_record(c, index) ==
    IF index < Len(c.records) THEN Some(c.records[index + 1]) ELSE None

\* Collection::get_extra
Collection_get_extra(c, key) ==
    IF key \in DOMAIN c.extras THEN Some(c.extras[key]) ELSE None

\* the arguments of the calls
NewChildren == {Collection_new(L_p), Collection_new(L_q)}
NewRecords == {Record_new(L_x, S_def), Record_new(L_y, S_def)}
NewExtraKeys == {K_note, K_nonce}
NewExtras ==
    {<<K_note, <<7>>, FALSE>>, <<K_note, <<8>>, TRUE>>, <<K_nonce, <<7>>, TRUE>>}

CollectionInit ==
    /\ header = Header_new(1, N_sha3, N_sha3, N_aes,
                           sha3_256(CorrectMasterKey \o MasterKeySalt),
                           MasterKeySalt, KeySalt, EmptyEntries)
    /\ root = Collection_new(L_root)
    /\ hist = [calls |-> 0, children |-> <<>>, records |-> <<>>,
               extras |-> [k \in NewExtraKeys |-> None]]
    /\ last = [op |-> "Collection::new", panic |-> FALSE, before |-> root]

\* Collection::add_child(child)
CollAddChild(child) ==
    /\ hist.calls < MaxOps
    /\ root' = add_child(root, child)
    /\ hist' = [hist EXCEPT !.calls = @ + 1, !.children = Append(@, child)]
    /\ last' = [op |-> "add_child", panic |-> FALSE, before |-> root]
    /\ UNCHANGED header

\* Collection::add_record(record)
CollAddRecord(record) ==
    /\ hist.calls < MaxOps
    /\ root' = add_record(root, record)
    /\ hist' = [hist EXCEPT !.calls = @ + 1, !.records = Append(@, record)]
    /\ last' = [op |-> "add_record", panic |-> FALSE, before |-> root]
    /\ UNCHANGED header

\* Collection::add_extra(key, value, is_secret)
CollAddExtra(key, value, is_secret) ==
    /\ hist.calls < MaxOps
    /\ root' = Collection_add_extra(root, key, value, is_secret)
    /\ hist' = [hist EXCEPT !.calls = @ + 1,
                            !.extras[key] = Some(Value_new(value, is_secret))]
    /\ last' = [op |-> "add_extra", panic |-> FALSE, before |-> root]
    /\ UNCHANGED header

CollectionNext ==
    \/ \E child \in NewChildren : CollAddChild(child)
    \/ \E record \in NewRecords : CollAddRecord(record)
    \/ \E e \in NewExtras : CollAddExtra(e[1], e[2], e[3])

CollectionSpec == CollectionInit /\ [][CollectionNext]_vars

\* C24: after any sequence of add_child, add_record and add_extra calls,
\* children() and records() list the inserted items in call order,
\* get_child(i) and get_record(i) return the i-th inserted item and None
\* beyond the count, get_extra(k) returns the value and the secrecy flag of
\* the last add_extra for k, and each call leaves the label and the two
\* other parts of the collection as they were.
C24_MutationOrder ==
    /\ root.children = hist.children
    /\ root.records = hist.records
    /\ \A i \in 0..MaxOps :
           /\ Collection_get_child(root, i) =
                  (IF i < Len(hist.children) THEN Some(hist.children[i + 1]) ELSE None)
           /\ Collection_get_record(root, i) =
                  (IF i < Len(hist.records) THEN Some(hist.records[i + 1]) ELSE None)
    /\ \A k \in NewExtraKeys : Collection_get_extra(root, k) = hist.extras[k]
    /\ root.label = last.before.label
    /\ last.op = "add_child" =>
           root.records = last.before.records /\ root.extras = last.before.extras
    /\ last.op = "add_record" =>
           root.children = last.before.children /\ root.extras = last.before.extras
    /\ last.op = "add_extra" =>
           root.children = last.before.children /\ root.records = last.before.records

\* two children added in the order "q", "p", then the extra "note" added
\* twice: the second value has replaced the first
C24_Witness ==
    /\ LabelsOf(root.children) = <<L_q, L_p>>
    /\ last.op = "add_extra"
    /\ Collection_get_extra(last.before, K_note) = Some(Value_new(<<7>>, FALSE))
    /\ Collection_get_extra(root, K_note) = Some(Value_new(<<8>>, TRUE))
    /\ Collection_get_child(root, 1) = Some(Collection_new(L_p))
    /\ Collection_get_child(root, 2) = None

----------------------------------------------------------------------------
(* The two functions CipherRegistry::default registers under "aes-gcm",    *)
(* called with data, a key and a map of extras                             *)

\* the data, the keys and the extras of the calls: keys of the length of
\* the cipher and one that is shorter; extras with and without "nonce" and
\* another entry, a nonce of the length of the cipher, an empty one and one
\* that is too long
CipherData ==
    {<<>>, P_text, Seal(P_text, DerivedKey, Nonce0)}
        \cup Tampered(Seal(P_text, DerivedKey, Nonce0))
CipherKeys == {DerivedKey, OtherKey, ShortKey}
CipherExtraValues == {Nonce0, Nonce1, <<>>, Nonce0 \o Nonce1}
CipherExtras == UNION {[D -> CipherExtraValues] : D \in SUBSET {K_nonce, K_note}}

CipherInit ==
    /\ header = Header_new(1, N_sha3, N_sha3, N_aes,
                           sha3_256(CorrectMasterKey \o MasterKeySalt),
                           MasterKeySalt, KeySalt, EmptyEntries)
    /\ root = Collection_new(L_root)
    /\ hist = [unlocked |-> FALSE, first |-> [mk \in MasterKeys |-> None]]
    /\ last = [op |-> "CipherRegistry::default", panic |-> FALSE]

\* get_encryptor("aes-gcm")(data, key, extras)
AesEncrypt(data, key, extras) ==
    /\ last.op = "CipherRegistry::default"
    /\ LET result == aes_encrypt(data, key, extras)
       IN  last' = [op |-> "aes_encrypt", panic |-> IsPanic(result), data |-> data,
                    key |-> key, extras |-> extras, result |-> result]
    /\ UNCHANGED <<header, root, hist>>

\* get_decryptor("aes-gcm")(data, key, extras)
AesDecrypt(data, key, extras) ==
    /\ last.op = "CipherRegistry::default"
    /\ LET result == aes_decrypt(data, key, extras)
       IN  last' = [op |-> "aes_decrypt", panic |-> IsPanic(result), data |-> data,
                    key |-> key, extras |-> extras, result |-> result]
    /\ UNCHANGED <<header, root, hist>>

CipherNext ==
    \/ \E data \in CipherData, key \in CipherKeys, extras \in CipherExtras :
          AesEncrypt(data, key, extras)
    \/ \E data \in CipherData, key \in CipherKeys, extras \in CipherExtras :
          AesDecrypt(data, key, extras)

CipherSpec == CipherInit /\ [][CipherNext]_vars

\* C25: with a key of the length of the cipher, aes_encrypt and aes_decrypt
\* return MissingRequiredExtra("nonce") when the extras hold no "nonce", and
\* return a result of the cipher (the bytes, or EncryptionError) when they
\* hold one.
C25_RequiredNonce ==
    (last.op \in {"aes_encrypt", "aes_decrypt"} /\ Len(last.key) = KeySize) =>
        IF K_nonce \notin DOMAIN last.extras
        THEN last.result = Err(CipherError_MissingRequiredExtra(K_nonce))
        ELSE \/ IsOk(last.result)
             \/ last.result = Err(CipherError_EncryptionError)

RECURSIVE NoteOwners(_, _, _)
NoteOwners(bs, owner, nrec) ==
    IF bs = <<>> THEN {}
    ELSE IF Head(bs).kind = "record" THEN NoteOwners(Tail(bs), nrec + 1, nrec + 1)
    ELSE IF Head(bs).kind = "child" THEN NoteOwners(Tail(bs), 0, nrec)
    ELSE {owner} \cup NoteOwners(Tail(bs), owner, nrec)

\* C27: Parser::parse returns Ok or Err on every input and never panics.
C27_ParserTotal ==
    last.op = "parse" => ~last.panic

\* C28: parse_record consumes every pair that follows the 0x02 starter; in
\* a collection a pair directly after a record is an entry of that record,
\* and the extras of the collection are the pairs at the start of its body
\* and directly after the 0x04 of a child.
C28_RecordBoundary ==
    /\ last.op = "parse_record" =>
           \A first \in BOOLEAN, extra \in ExtraPairs,
              t \in {<<>>, <<COLLECTION_ENDER_BYTE>>} :
               last.input = RecordBody(Some(VALUE_STARTER_BYTE),
                                       Some(SECRET_VALUE_STARTER_BYTE), first, extra) \o t
                   => /\ IsOk(last.result)
                      /\ last.result.rest = t
                      /\ DOMAIN last.result.val.extras =
                             (IF extra = <<>> THEN {} ELSE {K_note})
    /\ (last.op = "parse_collection" /\ OnBlocks /\ Closed(hist)) =>
                   LET owners == NoteOwners(hist.blocks, 0, 0)
                       coll == last.result.val
                   IN  /\ IsOk(last.result)
                       /\ DOMAIN coll.extras = (IF 0 \in owners THEN {K_note} ELSE {})
                       /\ \A i \in 1..Len(coll.records) :
                              DOMAIN coll.records[i].extras =
                                  (IF i \in owners THEN {K_note} ELSE {})
                       /\ \A i \in 1..Len(coll.children) :
                              /\ coll.children[i].extras = EmptyEntries
                              /\ coll.children[i].label = L_q =>
                                     DOMAIN coll.children[i].records[1].extras = {K_note}

\* a body of a record, a child and a pair has been parsed: the pair after
\* the record inside the child is the record's, the pair after the 0x04 of
\* the child is the collection's
C28_Witness ==
    /\ last.op = "parse_collection"
    /\ IsOk(last.result)
    /\ Len(last.result.val.records) = 1
    /\ Len(last.result.val.children) = 1
    /\ last.result.val.records[1].extras = EmptyEntries
    /\ Len(last.result.val.children[1].records) = 1
    /\ K_note \in DOMAIN last.result.val.children[1].records[1].extras
    /\ K_note \in DOMAIN last.result.val.extras

\* C29: Record::to_bytes writes each key at most once, whatever add_extra
\* calls the record went through: the framed key "label", "secret" or
\* "nonce" stands at one place of the bytes at most.
C29_NoDuplicateKeys ==
    \A r \in AllRecords(root), ord \in Orders :
        \A k \in {K_label, K_secret, K_nonce} :
            Occurrences(Value_to_bytes(Value_new(k, FALSE)), Record_to_bytes(r, ord)) <= 1

\* bytes after the end of a file
TrailingBytes == {<<7>>, <<COLLECTION_ENDER_BYTE>>, <<VALUE_STARTER_BYTE, 0>>,
                  <<COLLECTION_STARTER_BYTE>>}

====
